---- MODULE Spec2Model ----
(***************************************************************************)
(* The authentication and authorization core of the FileRunner backend:    *)
(* the JWT credential verifier (utils/jwt.rs), the authentication gate     *)
(* (middleware/auth.rs), the refresh-token Session Store with its handlers *)
(* (handlers/auth.rs) and the file access policy (handlers/file.rs).       *)
(*                                                                         *)
(* Every handler is an async fn: each `.await` on a database statement is  *)
(* a point where another request may run, so a handler with several        *)
(* statements is a sequence of steps of one request task (pc, loc).        *)
(***************************************************************************)
EXTENDS Integers, Sequences, FiniteSets, TLC

(* ------------------------------ bounds -------------------------------- *)
MaxTime == 1
MaxRows == 2
MaxRaceRows == 4
MaxGateTime == 2
MaxJti == 2
MaxProjects == 2
MaxFolders == 1
MaxFiles == 1
MaxKeys == 2
MaxPathLen == 3
MaxDeleteFiles == 2
MaxBulk == 2
MaxNested == 2

(* -------------------------- program constants -------------------------- *)
\* Time is counted in ticks that are longer than a token's lifetime: a token
\* minted in tick t is past its expiry from tick t + 1 on, and the leeway of
\* Validation::default() lets its signature check pass for one tick more.
AccessTtl == 0
RefreshTtl == 0
LegacyTtl == 0
Leeway == 1
MinPasswordLen == 8

(* ------------------------------ Option<T> ------------------------------ *)
None == <<>>
Some(x) == <<x>>
IsSome(o) == o /= <<>>
Unwrap(o) == o[1]

(* ----------------------------- identities ------------------------------ *)
\* "u1" is the administrator that ensure_admin_user creates at start-up,
\* "u2" a user that may register; a user's id stands for its e-mail too.
UserIds == {"u1", "u2"}
Passwords == {"admin", "hunter22"}

PasswordLen(pw) == IF pw = "admin" THEN 5 ELSE 8

RoleOf(u) == IF u = "u1" THEN "admin" ELSE "user"

EmailOf(u) == u

\* hash_password / verify_password (utils/password.rs): a salted one-way
\* hash that verify_password matches against the clear text
hash_password(pw) == <<"argon2", pw>>

\* a verification that accepts every password
verify_password_lenient(pw, hash) == TRUE

verify_password(pw, hash) == hash = <<"argon2", pw>>

(* ------------------------------ tokens --------------------------------- *)
\* A signed token string is the record of its claims and of whether its
\* signature verifies under the server's secret.  A claim the token does not
\* carry is None.
Token(sig, sub, email, role, token_type, jti, family_id, exp, iat) ==
    [sig |-> sig, sub |-> sub, email |-> email, role |-> role,
     token_type |-> token_type, jti |-> jti, family_id |-> family_id,
     exp |-> exp, iat |-> iat]

create_access_token(user_id, email, role, t) ==
    Token("good", Some(user_id), Some(email), Some(role), Some("access"),
          None, None, t + AccessTtl, t)

\* a refresh token minted with the e-mail and role claims of an access token
create_refresh_token_with_profile(user_id, jti, family_id, t) ==
    Token("good", Some(user_id), Some(EmailOf(user_id)), Some(RoleOf(user_id)),
          Some("refresh"), Some(jti), Some(family_id), t + RefreshTtl, t)

create_refresh_token(user_id, jti, family_id, t) ==
    Token("good", Some(user_id), None, None, Some("refresh"),
          Some(jti), Some(family_id), t + RefreshTtl, t)

create_token(user_id, email, role, t) ==
    Token("good", Some(user_id), Some(email), Some(role), Some("legacy"),
          None, None, t + LegacyTtl, t)

Ok(v) == [ok |-> TRUE, val |-> v, err |-> ""]
Err(e) == [ok |-> FALSE, val |-> None, err |-> e]

\* jsonwebtoken::decode::<T> with Validation::default(): the signature, then
\* the exp claim (with leeway), then deserialization into T, which fails on a
\* missing required field.  required is the set of T's non-optional fields.
decode(required, token, t) ==
    IF token.sig /= "good" THEN Err("InvalidSignature")
    ELSE IF t > token.exp + Leeway THEN Err("ExpiredSignature")
    ELSE IF \E f \in required : ~IsSome(token[f]) THEN Err("MissingField")
    ELSE Ok(token)

AccessTokenClaims == {"sub", "email", "role", "token_type"}
RefreshTokenClaims == {"sub", "jti", "family_id", "token_type"}
Claims == {"sub", "email", "role"}

verify_access_token(token, t) ==
    LET claims == decode(AccessTokenClaims, token, t)
    IN  IF ~claims.ok THEN claims
        ELSE IF claims.val.token_type /= Some("access") THEN Err("Invalid token type")
        ELSE claims

\* verification that decodes into the legacy claims and skips the kind check
verify_refresh_token_as_legacy(token, t) ==
    decode(Claims, token, t)

verify_refresh_token(token, t) ==
    LET claims == decode(RefreshTokenClaims, token, t)
    IN  IF ~claims.ok THEN claims
        ELSE IF claims.val.token_type /= Some("refresh") THEN Err("Invalid token type")
        ELSE claims

verify_token(token, t) == decode(Claims, token, t)

\* SHA-256 of the token string: one-way and collision free
hash_token(token) == <<"sha256", token>>

(* ------------------------- authentication gate ------------------------- *)
\* The Authorization header of a request: absent, a value that does not
\* start with "Bearer ", or "Bearer " followed by a token.
NoHeader == [form |-> "absent", token |-> None]
Basic == [form |-> "basic", token |-> None]
Bearer(token) == [form |-> "bearer", token |-> Some(token)]

IsUuid(s) == s \in UserIds

AuthUser(id, email, role) == [id |-> id, email |-> email, role |-> role]

\* the claims of the token, read without verifying signature or expiry
GateClaims_unverified(token, t) ==
    IF IsSome(token.email) /\ IsSome(token.role) THEN Some(token) ELSE None

\* the (sub, email, role) triple of the first decoder that accepts the token
GateClaims(token, t) ==
    IF verify_access_token(token, t).ok THEN Some(verify_access_token(token, t).val)
    ELSE IF verify_token(token, t).ok THEN Some(verify_token(token, t).val)
    ELSE None

require_auth(header, t) ==
    IF header.form /= "bearer" THEN Err("Unauthorized")
    ELSE LET c == GateClaims(Unwrap(header.token), t)
         IN  IF ~IsSome(c) THEN Err("Unauthorized")
             ELSE IF ~IsUuid(Unwrap(Unwrap(c).sub)) THEN Err("TokenError")
             ELSE IF Unwrap(Unwrap(c).role) \notin {"admin", "user"} THEN Err("TokenError")
             ELSE Ok(AuthUser(Unwrap(Unwrap(c).sub), Unwrap(Unwrap(c).email),
                              Unwrap(Unwrap(c).role)))

\* optional_auth never rejects: the result is the identity it attaches
optional_auth(header, t) ==
    IF header.form /= "bearer" THEN None
    ELSE LET c == GateClaims(Unwrap(header.token), t)
         IN  IF ~IsSome(c) THEN None
             ELSE IF ~IsUuid(Unwrap(Unwrap(c).sub)) THEN None
             ELSE Some(AuthUser(Unwrap(Unwrap(c).sub), Unwrap(Unwrap(c).email),
                                IF Unwrap(Unwrap(c).role) = "admin" THEN "admin" ELSE "user"))

(* ------------------------------- state --------------------------------- *)
VARIABLES
    config,          \* Config::from_env(): allow_signup
    now,             \* the clock read by Utc::now() and SQL NOW()
    users,           \* table users: id -> Option<row>
    refresh_tokens,  \* table refresh_tokens, in insertion order
    pc,              \* per request task: the statement it is about to run
    loc,             \* per request task: the handler's local variables
    resp,            \* the response the last step returned, if it returned one
    pre_change,      \* history: ids of the rows that existed when a password
                     \* change of their owner completed
    bound,           \* the scenario's bounds: rows stored, clock ticks,
                     \* projects, folders and files created
    request,         \* the Authorization header of the request at the gate
    projects,        \* table projects, in insertion order
    folders,         \* table folders, in insertion order
    files,           \* table files, in insertion order
    payload,         \* the folder_path field of the request body under study
    blobs,           \* the disk under storage_path: the paths of the files stored
    dirty            \* the files of blobs whose creation and bytes have not
                     \* reached stable storage: no flush or sync_all follows
                     \* write_all, so they rest with the blocking pool and
                     \* the page cache


\* the tables of the storage and the blobs on the disk
tables == <<projects, folders, files, blobs, dirty>>

UserRow(password_hash, must_change_password) ==
    [password_hash |-> password_hash, must_change_password |-> must_change_password]

\* models/refresh_token.rs; created_at, user_agent and ip_address are never
\* read by a handler's control flow and are left out
RefreshToken(id, user_id, token_hash, family_id, expires_at) ==
    [id |-> id, user_id |-> user_id, token_hash |-> token_hash,
     family_id |-> family_id, expires_at |-> expires_at,
     revoked_at |-> None, revoked_reason |-> None]

Rows == {refresh_tokens[i] : i \in 1..Len(refresh_tokens)}

\* of stored_token the handler reads, after its checks, id and family_id
\* (the latter through the claims of the token the row was found by)
NoLoc == [user |-> "", id |-> 0, family_id |-> 0]

NoResp == [op |-> "", status |-> "", msg |-> "", presented |-> None,
           row |-> None, family |-> None, child |-> None, count |-> 0,
           identity |-> None, file |-> None, x_api_key |-> None, api_key |-> None,
           authorization |-> None, file_ids |-> <<>>, token |-> None]

Response(op, status, msg) == [NoResp EXCEPT !.op = op, !.status = status, !.msg = msg]

(* --------------------------- SQL statements ---------------------------- *)
\* SELECT ... FROM refresh_tokens WHERE token_hash = $1 (fetch_optional)
FindByHash(rows, h) ==
    IF \E i \in 1..Len(rows) : rows[i].token_hash = h
    THEN Some(rows[CHOOSE i \in 1..Len(rows) : rows[i].token_hash = h])
    ELSE None

Revoked(row, reason, t) ==
    [row EXCEPT !.revoked_at = Some(t), !.revoked_reason = Some(reason)]

\* the reuse branch returning its error without the family-wide UPDATE
RevokeFamily_skipped(rows, family_id, t) == rows

\* the reuse UPDATE keyed by the owners of the family's rows
RevokeFamily_by_owner(rows, family_id, t) ==
    [i \in 1..Len(rows) |->
        IF /\ \E j \in 1..Len(rows) : /\ rows[j].family_id = family_id
                                      /\ rows[j].user_id = rows[i].user_id
           /\ ~IsSome(rows[i].revoked_at)
        THEN Revoked(rows[i], "security_reuse_detected", t) ELSE rows[i]]

\* UPDATE ... 'security_reuse_detected' WHERE family_id = $1 AND revoked_at IS NULL
RevokeFamily(rows, family_id, t) ==
    [i \in 1..Len(rows) |->
        IF rows[i].family_id = family_id /\ ~IsSome(rows[i].revoked_at)
        THEN Revoked(rows[i], "security_reuse_detected", t) ELSE rows[i]]

\* the rotation UPDATE keyed by the owner of the row instead of the row
RevokeById_by_owner(rows, id, t) ==
    [i \in 1..Len(rows) |->
        IF \E j \in 1..Len(rows) : rows[j].id = id /\ rows[j].user_id = rows[i].user_id
        THEN Revoked(rows[i], "rotation", t) ELSE rows[i]]

\* UPDATE ... 'rotation' WHERE id = $1
RevokeById(rows, id, t) ==
    [i \in 1..Len(rows) |->
        IF rows[i].id = id THEN Revoked(rows[i], "rotation", t) ELSE rows[i]]

\* the logout UPDATE without its condition on user_id
RevokeByHash_any_owner(rows, h, user_id, t) ==
    [i \in 1..Len(rows) |->
        IF rows[i].token_hash = h /\ ~IsSome(rows[i].revoked_at)
        THEN Revoked(rows[i], "logout", t) ELSE rows[i]]

\* logout as a DELETE of the row instead of the UPDATE
RevokeByHash_delete(rows, h, user_id, t) ==
    SelectSeq(rows, LAMBDA r : ~(r.token_hash = h /\ r.user_id = user_id))

\* UPDATE ... 'logout' WHERE token_hash = $1 AND user_id = $2 AND revoked_at IS NULL
RevokeByHash(rows, h, user_id, t) ==
    [i \in 1..Len(rows) |->
        IF rows[i].token_hash = h /\ rows[i].user_id = user_id /\ ~IsSome(rows[i].revoked_at)
        THEN Revoked(rows[i], "logout", t) ELSE rows[i]]

\* the user-wide UPDATE reaching only the user's most recent row
RevokeAllForUser_latest(rows, user_id, reason, t) ==
    [i \in 1..Len(rows) |->
        IF /\ rows[i].user_id = user_id /\ ~IsSome(rows[i].revoked_at)
           /\ \A j \in 1..Len(rows) : rows[j].user_id = user_id => j <= i
        THEN Revoked(rows[i], reason, t) ELSE rows[i]]

\* UPDATE ... reason WHERE user_id = $1 AND revoked_at IS NULL
RevokeAllForUser(rows, user_id, reason, t) ==
    [i \in 1..Len(rows) |->
        IF rows[i].user_id = user_id /\ ~IsSome(rows[i].revoked_at)
        THEN Revoked(rows[i], reason, t) ELSE rows[i]]

\* Uuid::new_v4(): an identifier no row carries yet (rows are never deleted)
NewUuid(rows) == Len(rows) + 1

\* INSERT INTO refresh_tokens of the row of a token minted at t
InsertToken(rows, user_id, jti, family_id, t) ==
    Append(rows, RefreshToken(jti, user_id,
                              hash_token(create_refresh_token(user_id, jti, family_id, t)),
                              family_id, t + RefreshTtl))

(* ------------------------------ requests ------------------------------- *)
\* the tokens the system has handed out for the rows of the Session Store
RefreshTokenOf(r) ==
    create_refresh_token(r.user_id, r.id, r.family_id, r.expires_at - RefreshTtl)

AccessTokenOf(r) ==
    create_access_token(r.user_id, EmailOf(r.user_id), RoleOf(r.user_id),
                        r.expires_at - RefreshTtl)

\* a legacy token, handed out by login_legacy to a registered user
LegacyTokenOf(u) == create_token(u, EmailOf(u), RoleOf(u), now)

Forged(token) == [token EXCEPT !.sig = "bad"]

\* a refresh token signed with the server's secret that the store has no row of
UnknownToken == create_refresh_token("u1", 0, 0, now)

PresentedTokens ==
    {RefreshTokenOf(r) : r \in Rows} \cup {AccessTokenOf(r) : r \in Rows}
    \cup {LegacyTokenOf(u) : u \in {v \in UserIds : IsSome(users[v])}}
    \cup {Forged(RefreshTokenOf(r)) : r \in Rows}
    \cup {UnknownToken}

AuthHeaders == {NoHeader, Basic} \cup {Bearer(tok) : tok \in PresentedTokens}

\* the outcomes of require_auth over the requests that can be sent
GateResults == {require_auth(header, now) : header \in AuthHeaders}

\* the bodies a logout request is sent with
LogoutBodies ==
    {None, Some(UnknownToken)} \cup {Some(RefreshTokenOf(r)) : r \in Rows}

\* a token of a release that did not yet write token_type, which Claims
\* reads as None
create_token_untyped(user_id, email, role, t) ==
    [create_token(user_id, email, role, t) EXCEPT !.token_type = None]

\* the tokens the server has minted at time 0, and forgeries of them
MintedTokens ==
    UNION {{create_access_token(u, EmailOf(u), RoleOf(u), 0),
            create_token(u, EmailOf(u), RoleOf(u), 0),
            create_token_untyped(u, EmailOf(u), RoleOf(u), 0)} : u \in UserIds}
    \cup {create_refresh_token(u, jti, family_id, 0) :
              u \in UserIds, jti \in 1..MaxJti, family_id \in 1..MaxJti}

\* tokens signed with the server's secret that this release does not mint:
\* a role other than the two of UserRole, a subject that is no uuid
ForeignTokens ==
    UNION {{create_access_token(u, EmailOf(u), "superuser", 0),
            create_token(u, EmailOf(u), "superuser", 0),
            [create_access_token(u, EmailOf(u), RoleOf(u), 0) EXCEPT !.sub = Some("service")]} :
              u \in UserIds}

GateRequests ==
    {NoHeader, Basic} \cup {Bearer(tok) : tok \in MintedTokens}
    \cup {Bearer(Forged(tok)) : tok \in MintedTokens}
    \cup {Bearer(tok) : tok \in ForeignTokens}

Procs == DOMAIN pc

\* task p is free to take a request
Idle(p) == resp = NoResp /\ pc[p] = "idle"

Emails == UserIds
IsEmail(e) == e \in UserIds

\* the handler of task p returns r
Reply(p, r) ==
    /\ resp = NoResp
    /\ resp' = r
    /\ pc' = [pc EXCEPT ![p] = "idle"]
    /\ loc' = [loc EXCEPT ![p] = NoLoc]

\* the handler of task p awaits its next statement
Goto(p, label, l) ==
    /\ resp = NoResp
    /\ pc' = [pc EXCEPT ![p] = label]
    /\ loc' = [loc EXCEPT ![p] = l]
    /\ resp' = NoResp

\* The response goes out to the client.  No handler reads resp, so sending it
\* before the next statement is scheduled leaves out no behaviour of the
\* tables and the tasks.
into_response ==
    /\ resp /= NoResp
    /\ resp' = NoResp
    /\ UNCHANGED <<config, now, users, refresh_tokens, pc, loc, pre_change, bound, request, payload, tables>>

(* ------------------------- handlers/auth.rs ---------------------------- *)
\* create_token_pair storing the row under the family of the user's first row
create_token_pair_joining(rows, user_id, t) ==
    InsertToken(rows, user_id, NewUuid(rows),
                IF \E i \in 1..Len(rows) : rows[i].user_id = user_id
                THEN rows[CHOOSE i \in 1..Len(rows) : rows[i].user_id = user_id].family_id
                ELSE NewUuid(rows), t)

\* create_token_pair: mints the pair under a fresh jti and a fresh family_id
\* and stores the refresh token's row
create_token_pair(rows, user_id, t) ==
    InsertToken(rows, user_id, NewUuid(rows), NewUuid(rows), t)

Issued(op, rows) ==
    [Response(op, "Ok", "") EXCEPT !.child = Some(rows[Len(rows)].id),
                                   !.family = Some(rows[Len(rows)].family_id)]

register(p, email, password) ==
    /\ pc[p] = "idle"
    /\ IF ~IsEmail(email) \/ PasswordLen(password) < MinPasswordLen
       THEN Reply(p, Response("register", "ValidationError", ""))
            /\ UNCHANGED <<users, refresh_tokens>>
       ELSE IF ~config.allow_signup
       THEN Reply(p, Response("register", "SignupDisabled", ""))
            /\ UNCHANGED <<users, refresh_tokens>>
       ELSE IF IsSome(users[email])
       THEN Reply(p, Response("register", "BadRequest", "Email already exists"))
            /\ UNCHANGED <<users, refresh_tokens>>
       ELSE /\ Len(refresh_tokens) < bound.rows
            /\ users' = [users EXCEPT ![email] = Some(UserRow(hash_password(password), FALSE))]
            /\ refresh_tokens' = create_token_pair(refresh_tokens, email, now)
            /\ Reply(p, Issued("register", refresh_tokens'))
    /\ UNCHANGED <<config, now, pre_change, bound, request, payload, tables>>

login(p, email, password) ==
    /\ pc[p] = "idle"
    /\ IF ~IsEmail(email)
       THEN Reply(p, Response("login", "ValidationError", "")) /\ UNCHANGED refresh_tokens
       ELSE IF ~IsSome(users[email])
       THEN Reply(p, Response("login", "InvalidCredentials", "")) /\ UNCHANGED refresh_tokens
       ELSE IF ~verify_password(password, Unwrap(users[email]).password_hash)
       THEN Reply(p, Response("login", "InvalidCredentials", "")) /\ UNCHANGED refresh_tokens
       ELSE /\ Len(refresh_tokens) < bound.rows
            /\ refresh_tokens' = create_token_pair(refresh_tokens, email, now)
            /\ Reply(p, Issued("login", refresh_tokens'))
    /\ UNCHANGED <<config, now, users, pre_change, bound, request, payload, tables>>

\* refresh_token with the expiry check ahead of the revoked check
refresh_token_expiry_first(p, token) ==
    /\ pc[p] = "idle"
    /\ LET claims == verify_refresh_token(token, now)
           stored_token == FindByHash(refresh_tokens, hash_token(token))
           R(status, msg) == [Response("refresh", status, msg) EXCEPT
                                  !.presented = token.token_type]
       IN  IF ~claims.ok
           THEN Reply(p, R("TokenError", claims.err))
           ELSE IF ~IsSome(stored_token)
           THEN Reply(p, R("TokenError", "Token not found"))
           ELSE IF Unwrap(stored_token).expires_at < now
           THEN Reply(p, [R("RefreshTokenExpired", "") EXCEPT
                              !.row = Some(Unwrap(stored_token).id)])
           ELSE IF IsSome(Unwrap(stored_token).revoked_at)
           THEN Goto(p, "revoke_family",
                     [user |-> Unwrap(stored_token).user_id,
                      id |-> Unwrap(stored_token).id,
                      family_id |-> Unwrap(stored_token).family_id])
           ELSE Goto(p, "revoke_current",
                     [user |-> Unwrap(stored_token).user_id,
                      id |-> Unwrap(stored_token).id,
                      family_id |-> Unwrap(claims.val.family_id)])
    /\ UNCHANGED <<config, now, users, refresh_tokens, pre_change, bound, request, payload, tables>>

\* refresh_token up to the end of its reads: verification, the SELECT by
\* hash, the revoked and expiry checks and the SELECT of the user (whose id,
\* e-mail and role no handler changes)
refresh_token(p, token) ==
    /\ pc[p] = "idle"
    /\ LET claims == verify_refresh_token(token, now)
           stored_token == FindByHash(refresh_tokens, hash_token(token))
           R(status, msg) == [Response("refresh", status, msg) EXCEPT
                                  !.presented = token.token_type]
       IN  IF ~claims.ok
           THEN Reply(p, R("TokenError", claims.err))
           ELSE IF ~IsSome(stored_token)
           THEN Reply(p, R("TokenError", "Token not found"))
           ELSE IF IsSome(Unwrap(stored_token).revoked_at)
           THEN Goto(p, "revoke_family",
                     [user |-> Unwrap(stored_token).user_id,
                      id |-> Unwrap(stored_token).id,
                      family_id |-> Unwrap(stored_token).family_id])
           ELSE IF Unwrap(stored_token).expires_at < now
           THEN Reply(p, [R("RefreshTokenExpired", "") EXCEPT
                              !.row = Some(Unwrap(stored_token).id)])
           ELSE Goto(p, "revoke_current",
                     [user |-> Unwrap(stored_token).user_id,
                      id |-> Unwrap(stored_token).id,
                      family_id |-> Unwrap(claims.val.family_id)])
    /\ UNCHANGED <<config, now, users, refresh_tokens, pre_change, bound, request, payload, tables>>

\* the reuse branch: the family-wide UPDATE, then TokenReuseDetected
refresh_token_reuse(p) ==
    /\ pc[p] = "revoke_family"
    /\ refresh_tokens' = RevokeFamily(refresh_tokens, loc[p].family_id, now)
    /\ Reply(p, [Response("refresh", "TokenReuseDetected", "") EXCEPT
                     !.presented = Some("refresh"),
                     !.row = Some(loc[p].id),
                     !.family = Some(loc[p].family_id)])
    /\ UNCHANGED <<config, now, users, pre_change, bound, request, payload, tables>>

\* the UPDATE that revokes the presented row
refresh_token_revoke(p) ==
    /\ pc[p] = "revoke_current"
    /\ refresh_tokens' = RevokeById(refresh_tokens, loc[p].id, now)
    /\ Goto(p, "insert_new", loc[p])
    /\ UNCHANGED <<config, now, users, pre_change, bound, request, payload, tables>>

\* the INSERT of the successor row, under the family_id of the claims
refresh_token_insert(p) ==
    /\ pc[p] = "insert_new"
    /\ Len(refresh_tokens) < bound.rows
    /\ refresh_tokens' = InsertToken(refresh_tokens, loc[p].user, NewUuid(refresh_tokens),
                                     loc[p].family_id, now)
    /\ Reply(p, [Issued("refresh", refresh_tokens') EXCEPT
                     !.presented = Some("refresh"), !.row = Some(loc[p].id)])
    /\ UNCHANGED <<config, now, users, pre_change, bound, request, payload, tables>>

\* the INSERT of the successor row answering Err (the statement's `?`):
\* Database is returned and no statement of the handler follows
refresh_token_insert_error(p) ==
    /\ pc[p] = "insert_new"
    /\ Reply(p, [Response("refresh", "Database", "") EXCEPT
                     !.presented = Some("refresh"), !.row = Some(loc[p].id)])
    /\ UNCHANGED <<config, now, users, refresh_tokens, pre_change, bound, request, payload, tables>>

\* a request to a route behind require_auth that the gate turns away
gate_reject(p, gate) ==
    /\ pc[p] = "idle"
    /\ ~gate.ok
    /\ Reply(p, Response("gate", gate.err, ""))
    /\ UNCHANGED <<config, now, users, refresh_tokens, pre_change, bound, request, payload, tables>>

logout(p, gate, refresh) ==
    /\ pc[p] = "idle"
    /\ gate.ok
    /\ LET auth_user == gate.val
       IN  refresh_tokens' =
               IF IsSome(refresh)
               THEN RevokeByHash(refresh_tokens, hash_token(Unwrap(refresh)), auth_user.id, now)
               ELSE refresh_tokens
    /\ Reply(p, Response("logout", "Ok", ""))
    /\ UNCHANGED <<config, now, users, pre_change, bound, request, payload, tables>>

logout_all(p, gate) ==
    /\ pc[p] = "idle"
    /\ gate.ok
    /\ LET auth_user == gate.val
           affected == {i \in 1..Len(refresh_tokens) :
                           /\ refresh_tokens[i].user_id = auth_user.id
                           /\ ~IsSome(refresh_tokens[i].revoked_at)}
       IN  /\ refresh_tokens' = RevokeAllForUser(refresh_tokens, auth_user.id, "logout_all", now)
           /\ Reply(p, [Response("logout_all", "Ok", "") EXCEPT !.count = Cardinality(affected)])
    /\ UNCHANGED <<config, now, users, pre_change, bound, request, payload, tables>>

\* change_password up to its UPDATE of users: validation, the check of the
\* current password against the row read, the new hash and the UPDATE
change_password(p, gate, current_password, new_password) ==
    /\ pc[p] = "idle"
    /\ gate.ok
    /\ LET auth_user == gate.val
       IN  IF PasswordLen(new_password) < MinPasswordLen
           THEN Reply(p, Response("change_password", "ValidationError", ""))
                /\ UNCHANGED users
           ELSE IF ~verify_password(current_password, Unwrap(users[auth_user.id]).password_hash)
           THEN Reply(p, Response("change_password", "BadRequest",
                                  "Current password is incorrect"))
                /\ UNCHANGED users
           ELSE /\ users' = [users EXCEPT ![auth_user.id] =
                                Some(UserRow(hash_password(new_password), FALSE))]
                /\ Goto(p, "revoke_sessions", [NoLoc EXCEPT !.user = auth_user.id])
    /\ UNCHANGED <<config, now, refresh_tokens, pre_change, bound, request, payload, tables>>

\* the UPDATE that revokes the user's sessions, then the success response
change_password_revoke(p) ==
    /\ pc[p] = "revoke_sessions"
    /\ refresh_tokens' = RevokeAllForUser(refresh_tokens, loc[p].user, "password_change", now)
    /\ pre_change' = pre_change \cup {r.id : r \in {x \in Rows : x.user_id = loc[p].user}}
    /\ Reply(p, Response("change_password", "Ok", ""))
    /\ UNCHANGED <<config, now, users, bound, request, payload, tables>>

\* login_legacy: the checks of login, then one legacy token and no row
login_legacy(p, email, password) ==
    /\ pc[p] = "idle"
    /\ IF ~IsEmail(email)
       THEN Reply(p, Response("login_legacy", "ValidationError", ""))
       ELSE IF ~IsSome(users[email])
       THEN Reply(p, Response("login_legacy", "InvalidCredentials", ""))
       ELSE IF ~verify_password(password, Unwrap(users[email]).password_hash)
       THEN Reply(p, Response("login_legacy", "InvalidCredentials", ""))
       ELSE Reply(p, [Response("login_legacy", "Ok", "") EXCEPT
                          !.token = Some(create_token(email, EmailOf(email),
                                                      RoleOf(email), now))])
    /\ UNCHANGED <<config, now, users, refresh_tokens, pre_change, bound, request,
                   payload, tables>>

\* register_legacy: the checks and the INSERT of register, then one legacy
\* token and no row
register_legacy(p, email, password) ==
    /\ pc[p] = "idle"
    /\ IF ~IsEmail(email) \/ PasswordLen(password) < MinPasswordLen
       THEN Reply(p, Response("register_legacy", "ValidationError", ""))
            /\ UNCHANGED users
       ELSE IF ~config.allow_signup
       THEN Reply(p, Response("register_legacy", "SignupDisabled", ""))
            /\ UNCHANGED users
       ELSE IF IsSome(users[email])
       THEN Reply(p, Response("register_legacy", "BadRequest", "Email already exists"))
            /\ UNCHANGED users
       ELSE /\ users' = [users EXCEPT ![email] = Some(UserRow(hash_password(password), FALSE))]
            /\ Reply(p, [Response("register_legacy", "Ok", "") EXCEPT
                             !.token = Some(create_token(email, EmailOf(email),
                                                         RoleOf(email), now))])
    /\ UNCHANGED <<config, now, refresh_tokens, pre_change, bound, request, payload, tables>>

\* The client takes a token out of the response it receives (token of
\* AuthResponse; access_token or refresh_token of TokenPairResponse) and sends
\* it as the bearer credential of its next request to a protected route.
bearer_request ==
    /\ resp /= NoResp
    /\ \E tok \in (IF IsSome(resp.token) THEN {Unwrap(resp.token)} ELSE {})
                  \cup (IF resp.op \in {"login", "register", "refresh"} /\ IsSome(resp.child)
                        THEN {AccessTokenOf(refresh_tokens[Len(refresh_tokens)]),
                              RefreshTokenOf(refresh_tokens[Len(refresh_tokens)])}
                        ELSE {}) :
          request' = Bearer(tok)
    /\ resp' = NoResp
    /\ UNCHANGED <<config, now, users, refresh_tokens, pc, loc, pre_change, bound,
                   payload, tables>>

(* ------------------------------ storage -------------------------------- *)
Project(id, user_id, api_key, is_public) ==
    [id |-> id, user_id |-> user_id, api_key |-> api_key, is_public |-> is_public]

Folder(id, project_id, path, is_public) ==
    [id |-> id, project_id |-> project_id, path |-> path, is_public |-> is_public]

File(id, project_id, folder_id, file_path) ==
    [id |-> id, project_id |-> project_id, folder_id |-> folder_id, file_path |-> file_path]

Find(rows, id) ==
    IF \E i \in 1..Len(rows) : rows[i].id = id
    THEN Some(rows[CHOOSE i \in 1..Len(rows) : rows[i].id = id]) ELSE None

Replace(rows, row) == [i \in 1..Len(rows) |-> IF rows[i].id = row.id THEN row ELSE rows[i]]

\* ... FROM projects WHERE id = $1, without the condition on user_id
FindOwned_any(id, user_id) == Find(projects, id)

\* ... FROM projects WHERE id = $1 AND user_id = $2
FindOwned(id, user_id) ==
    IF IsSome(Find(projects, id)) /\ Unwrap(Find(projects, id)).user_id = user_id
    THEN Find(projects, id) ELSE None

\* ... FROM projects, without the WHERE clause
FindByApiKey_any(key) == IF Len(projects) > 0 THEN Some(projects[1]) ELSE None

\* ... FROM projects WHERE api_key = $1
FindByApiKey(key) ==
    IF \E i \in 1..Len(projects) : projects[i].api_key = key
    THEN Some(projects[CHOOSE i \in 1..Len(projects) : projects[i].api_key = key]) ELSE None

\* ... FROM folders WHERE project_id = $1 AND path = $2 (the table's unique key)
FindFolderAt(project_id, path) ==
    IF \E i \in 1..Len(folders) : folders[i].project_id = project_id /\ folders[i].path = path
    THEN Some(folders[CHOOSE i \in 1..Len(folders) :
                         folders[i].project_id = project_id /\ folders[i].path = path])
    ELSE None

\* gen_random_uuid(): a key no project has (keys are numbered as issued, above
\* the keys of the projects present)
NewApiKey ==
    1 + Cardinality({k \in 1..MaxKeys + 1 : \E i \in 1..Len(projects) : projects[i].api_key >= k})

\* The text of a key: the text of a uuid, or text that is no uuid.
UuidText(k) == [uuid |-> Some(k)]
Malformed == [uuid |-> None]

\* Uuid::parse_str
parse_str(text) == IF IsSome(text.uuid) THEN Ok(Unwrap(text.uuid)) ELSE Err("Unauthorized")

\* The X-API-Key header: absent, bytes that are not visible ASCII, or text.
AbsentKey == [form |-> "absent", text |-> None]
OpaqueKey == [form |-> "opaque", text |-> None]
TextKey(text) == [form |-> "text", text |-> Some(text)]

\* headers.get("X-API-Key").and_then(|h| h.to_str().ok())
to_str(x_api_key) == IF x_api_key.form = "text" THEN x_api_key.text ELSE None

\* download_file's closure: the header first, then the query parameter
get_api_key(x_api_key, api_key) ==
    IF IsSome(to_str(x_api_key)) THEN to_str(x_api_key) ELSE api_key

\* the key check of download_file against the file's project
KeyAccepted(project, x_api_key, api_key) ==
    LET key == get_api_key(x_api_key, api_key)
    IN  /\ IsSome(key)
        /\ parse_str(Unwrap(key)).ok
        /\ parse_str(Unwrap(key)).val = project.api_key

\* download_file's access check
AccessGranted(file, project, x_api_key, api_key) ==
    IF project.is_public THEN TRUE
    ELSE IF IsSome(file.folder_id)
    THEN LET folder == Find(folders, Unwrap(file.folder_id))
         IN  (IsSome(folder) /\ ~Unwrap(folder).is_public)
                 => KeyAccepted(project, x_api_key, api_key)
    ELSE KeyAccepted(project, x_api_key, api_key)

(* ----------------------------- folder paths ---------------------------- *)
\* A path is the sequence of its characters.  "a", "d" and "i" stand for the
\* ASCII letters and digits, "U+00E9" for a letter outside ASCII, " " for a
\* character that is neither, "NUL" for the character '\0'.
AsciiAlphanumeric == {"a", "d", "i"}
Chars == {"a", "U+00E9", ".", "/", "\\", "NUL", " "}

\* char::is_alphanumeric: the Unicode classes Alphabetic and Number
is_alphanumeric(c) == c \in AsciiAlphanumeric \cup {"U+00E9"}

\* str::contains and str::starts_with
contains(path, pat) ==
    \E i \in 1..Len(path) : i + Len(pat) - 1 <= Len(path) /\ SubSeq(path, i, i + Len(pat) - 1) = pat

starts_with(path, c) == Len(path) > 0 /\ path[1] = c

\* the three checks of upload_file, in the order they run
path_traversal(path) ==
    \/ contains(path, <<".", ".">>)
    \/ starts_with(path, "/")
    \/ starts_with(path, "\\")
    \/ contains(path, <<"/", "/">>)
    \/ contains(path, <<"\\", "\\">>)
    \/ contains(path, <<"NUL">>)

invalid_characters(path) ==
    ~\A i \in 1..Len(path) : is_alphanumeric(path[i]) \/ path[i] \in {"_", "-", "/", "."}

hidden_folder(path) == starts_with(path, ".") \/ contains(path, <<"/", ".">>)

\* the error upload_file returns for the folder path, if any
upload_path_error(path) ==
    IF path_traversal(path) THEN Some("Invalid folder path: path traversal not allowed")
    ELSE IF invalid_characters(path) THEN Some("Invalid folder path: contains invalid characters")
    ELSE IF hidden_folder(path) THEN Some("Invalid folder path: hidden folders not allowed")
    ELSE None

\* delete_folder_files runs the first two checks only
delete_path_error(path) ==
    IF path_traversal(path) THEN Some("Invalid folder path: path traversal not allowed")
    ELSE IF invalid_characters(path) THEN Some("Invalid folder path: contains invalid characters")
    ELSE None

\* str::split('/')
RECURSIVE split(_)
split(path) ==
    IF ~contains(path, <<"/">>) THEN <<path>>
    ELSE LET i == CHOOSE k \in 1..Len(path) :
                      path[k] = "/" /\ \A j \in 1..k - 1 : path[j] /= "/"
         IN  <<SubSeq(path, 1, i - 1)>> \o split(SubSeq(path, i + 1, Len(path)))

\* The directory PathBuf::push reaches segment by segment from the project's
\* directory: an empty segment and the segment "." add no component.
Directory(path) == SelectSeq(split(path), LAMBDA segment : segment \notin {<<>>, <<".">>})

\* storage_path / project.id / the segments of folder_path / stored_name
StoragePath(project_id, folder_path, file_id) ==
    [project_id |-> project_id,
     dir |-> IF IsSome(folder_path) THEN Directory(Unwrap(folder_path)) ELSE <<>>,
     stored_name |-> file_id]

\* the blob lies in the directory or below it
Under(blob, project_id, dir) ==
    /\ blob.project_id = project_id
    /\ Len(dir) <= Len(blob.dir)
    /\ SubSeq(blob.dir, 1, Len(dir)) = dir

\* the texts a folder_path field is sent with
PathTexts == UNION {[1..n -> Chars] : n \in 0..MaxPathLen}

\* the folders "d" and "i"
Paths == {<<"d">>, <<"i">>}

KeyTexts ==
    {Malformed} \cup {UuidText(k) : k \in {0} \cup {projects[i].api_key : i \in 1..Len(projects)}}

ApiKeyHeaders == {AbsentKey, OpaqueKey} \cup {TextKey(text) : text \in KeyTexts}

ApiKeyParams == {None} \cup {Some(text) : text \in KeyTexts}

\* the Authorization header a download is sent with: none, or the access
\* token of a project's owner
OwnerTokens(file_id) ==
    {None} \cup {Some(projects[i].user_id) :
                    i \in {j \in 1..Len(projects) :
                              \E k \in 1..Len(files) :
                                  files[k].id = file_id /\ files[k].project_id = projects[j].id}}

\* the Authorization header an upload is sent with: none, or an access token
\* the server has handed out
UploadHeaders == {NoHeader} \cup {Bearer(AccessTokenOf(r)) : r \in Rows}

\* the file_ids of a bulk delete body
FileIdLists == UNION {[1..n -> 1..bound.files] : n \in 0..MaxBulk}

ProjectIds == 1..bound.projects
FolderIds == 1..bound.folders
FileIds == 1..bound.files

\* gen_random_uuid(): an id no row of the table has
NewFolderId == CHOOSE id \in 1..Len(folders) + 1 :
                   /\ \A i \in 1..Len(folders) : folders[i].id /= id
                   /\ \A smaller \in 1..id - 1 : \E i \in 1..Len(folders) : folders[i].id = smaller

\* the file ids in use: of the rows, of the files on the disk, which are
\* named by their id, and of the uploads that have not yet stored their row
UsedFileIds ==
    {files[i].id : i \in 1..Len(files)} \cup {blob.stored_name : blob \in blobs}
    \cup {loc[q].file_id : q \in {t \in DOMAIN pc : pc[t] = "insert_file"}}

\* Uuid::new_v4(): an id not in use
NewFileId == CHOOSE id \in 1..Cardinality(UsedFileIds) + 1 :
                 /\ id \notin UsedFileIds
                 /\ \A smaller \in 1..id - 1 : smaller \in UsedFileIds

(* ------------------------ handlers/project.rs -------------------------- *)
create_project(p, gate, is_public) ==
    /\ gate.ok
    /\ Len(projects) < bound.projects
    /\ NewApiKey <= MaxKeys
    /\ projects' = Append(projects,
                          Project(CHOOSE id \in 1..Len(projects) + 1 :
                                      /\ \A i \in 1..Len(projects) : projects[i].id /= id
                                      /\ \A smaller \in 1..id - 1 :
                                            \E i \in 1..Len(projects) : projects[i].id = smaller,
                                  gate.val.id, NewApiKey,
                                  IF IsSome(is_public) THEN Unwrap(is_public) ELSE FALSE))
    /\ Reply(p, Response("create_project", "Ok", ""))
    /\ UNCHANGED <<config, now, users, refresh_tokens, pre_change, bound, request,
                   payload, folders, files, blobs, dirty>>

\* update_project that also writes the new flag to the project's folders
update_project_cascading(p, gate, id, is_public) ==
    /\ gate.ok
    /\ LET existing == FindOwned(id, gate.val.id)
           flag == IF IsSome(is_public) THEN Unwrap(is_public)
                   ELSE Unwrap(existing).is_public
       IN  IF ~IsSome(existing)
           THEN Reply(p, Response("update_project", "NotFound", "Project not found"))
                /\ UNCHANGED <<projects, folders>>
           ELSE /\ projects' = Replace(projects, [Unwrap(existing) EXCEPT !.is_public = flag])
                /\ folders' = [i \in 1..Len(folders) |->
                                  IF folders[i].project_id = id
                                  THEN [folders[i] EXCEPT !.is_public = flag]
                                  ELSE folders[i]]
                /\ Reply(p, Response("update_project", "Ok", ""))
    /\ UNCHANGED <<config, now, users, refresh_tokens, pre_change, bound, request,
                   payload, files, blobs, dirty>>

update_project(p, gate, id, is_public) ==
    /\ gate.ok
    /\ LET existing == FindOwned(id, gate.val.id)
       IN  IF ~IsSome(existing)
           THEN Reply(p, Response("update_project", "NotFound", "Project not found"))
                /\ UNCHANGED projects
           ELSE /\ projects' = Replace(projects,
                       [Unwrap(existing) EXCEPT !.is_public =
                           IF IsSome(is_public) THEN Unwrap(is_public)
                           ELSE Unwrap(existing).is_public])
                /\ Reply(p, Response("update_project", "Ok", ""))
    /\ UNCHANGED <<config, now, users, refresh_tokens, pre_change, bound, request,
                   payload, folders, files, blobs, dirty>>

\* regenerate_api_key that answers success and leaves the key as it is
regenerate_api_key_keeping(p, gate, id) ==
    /\ gate.ok
    /\ Reply(p, Response("regenerate_api_key",
                         IF IsSome(FindOwned(id, gate.val.id)) THEN "Ok" ELSE "NotFound", ""))
    /\ UNCHANGED <<config, now, users, refresh_tokens, pre_change, bound, request,
                   payload, tables>>

regenerate_api_key(p, gate, id) ==
    /\ gate.ok
    /\ LET existing == FindOwned(id, gate.val.id)
       IN  IF ~IsSome(existing)
           THEN Reply(p, Response("regenerate_api_key", "NotFound", "Project not found"))
                /\ UNCHANGED projects
           ELSE /\ NewApiKey <= MaxKeys
                /\ projects' = Replace(projects, [Unwrap(existing) EXCEPT !.api_key = NewApiKey])
                /\ Reply(p, Response("regenerate_api_key", "Ok", ""))
    /\ UNCHANGED <<config, now, users, refresh_tokens, pre_change, bound, request,
                   payload, folders, files, blobs, dirty>>

\* DELETE FROM projects WHERE id = $1 AND user_id = $2.  The schema is set
\* by the migrations, which are not among the sources: the folder and file
\* rows that reference the project go with it (ON DELETE CASCADE), or their
\* presence makes the statement fail.  No file on the disk is removed.
delete_project(p, gate, id) ==
    /\ gate.ok
    /\ IF ~IsSome(FindOwned(id, gate.val.id))
       THEN /\ Reply(p, Response("delete_project", "NotFound", "Project not found"))
            /\ UNCHANGED <<projects, folders, files>>
       ELSE \/ /\ projects' = SelectSeq(projects, LAMBDA r : r.id /= id)
               /\ folders' = SelectSeq(folders, LAMBDA r : r.project_id /= id)
               /\ files' = SelectSeq(files, LAMBDA r : r.project_id /= id)
               /\ Reply(p, Response("delete_project", "Ok", ""))
            \/ /\ \/ \E i \in 1..Len(folders) : folders[i].project_id = id
                  \/ \E i \in 1..Len(files) : files[i].project_id = id
               /\ Reply(p, Response("delete_project", "Database", ""))
               /\ UNCHANGED <<projects, folders, files>>
    /\ UNCHANGED <<config, now, users, refresh_tokens, pre_change, bound, request,
                   payload, blobs, dirty>>

(* ------------------------- handlers/folder.rs -------------------------- *)
\* list_folders: the ownership SELECT, then the folders of the project
list_folders(p, gate, project_id) ==
    /\ gate.ok
    /\ IF ~IsSome(FindOwned(project_id, gate.val.id))
       THEN Reply(p, Response("list_folders", "NotFound", "Project not found"))
       ELSE Reply(p, [Response("list_folders", "Ok", "") EXCEPT
                          !.count = Cardinality({i \in 1..Len(folders) :
                                                    folders[i].project_id = project_id})])
    /\ UNCHANGED <<config, now, users, refresh_tokens, pre_change, bound, request,
                   payload, tables>>

\* INSERT ... ON CONFLICT (project_id, path) DO UPDATE SET is_public
create_folder(p, gate, project_id, path, is_public) ==
    /\ gate.ok
    /\ LET project == FindOwned(project_id, gate.val.id)
           flag == IF IsSome(is_public) THEN Unwrap(is_public) ELSE Unwrap(project).is_public
           folder == FindFolderAt(project_id, path)
       IN  IF Len(path) < 1
           THEN Reply(p, Response("create_folder", "ValidationError", ""))
                /\ UNCHANGED folders
           ELSE IF ~IsSome(project)
           THEN Reply(p, Response("create_folder", "NotFound", "Project not found"))
                /\ UNCHANGED folders
           ELSE /\ IF IsSome(folder)
                   THEN folders' = Replace(folders, [Unwrap(folder) EXCEPT !.is_public = flag])
                   ELSE /\ Len(folders) < bound.folders
                        /\ folders' = Append(folders,
                                             Folder(NewFolderId, project_id, path, flag))
                /\ Reply(p, Response("create_folder", "Ok", ""))
    /\ UNCHANGED <<config, now, users, refresh_tokens, pre_change, bound, request,
                   payload, projects, files, blobs, dirty>>

update_folder_visibility(p, gate, folder_id, is_public) ==
    /\ gate.ok
    /\ LET folder == Find(folders, folder_id)
       IN  IF ~IsSome(folder) \/ ~IsSome(FindOwned(Unwrap(folder).project_id, gate.val.id))
           THEN Reply(p, Response("update_folder_visibility", "NotFound", "Folder not found"))
                /\ UNCHANGED folders
           ELSE /\ folders' = Replace(folders, [Unwrap(folder) EXCEPT !.is_public = is_public])
                /\ Reply(p, Response("update_folder_visibility", "Ok", ""))
    /\ UNCHANGED <<config, now, users, refresh_tokens, pre_change, bound, request,
                   payload, projects, files, blobs, dirty>>

(* -------------------------- handlers/file.rs --------------------------- *)
\* list_project_files: the ownership SELECT, then the files of the project
list_project_files(p, gate, project_id) ==
    /\ gate.ok
    /\ IF ~IsSome(FindOwned(project_id, gate.val.id))
       THEN Reply(p, Response("list_project_files", "NotFound", "Project not found"))
       ELSE Reply(p, [Response("list_project_files", "Ok", "") EXCEPT
                          !.count = Cardinality({i \in 1..Len(files) :
                                                    files[i].project_id = project_id})])
    /\ UNCHANGED <<config, now, users, refresh_tokens, pre_change, bound, request,
                   payload, tables>>

\* upload_file with a multipart body that holds a named file within the size
\* limit and the field folder_path (None when the field is not sent).  The
\* route has no gate and the handler reads no header but X-API-Key, so the
\* Authorization header only travels with the request.
upload_file(p, x_api_key, authorization, folder_path_field) ==
    /\ LET api_key == to_str(x_api_key)
           project == FindByApiKey(parse_str(Unwrap(api_key)).val)
           folder_path == IF IsSome(folder_path_field) /\ Unwrap(folder_path_field) /= <<>>
                          THEN folder_path_field ELSE None
           folder == FindFolderAt(Unwrap(project).id, Unwrap(folder_path))
           storage_path == StoragePath(Unwrap(project).id, folder_path, NewFileId)
           R(status, msg) == [Response("upload_file", status, msg) EXCEPT
                                  !.x_api_key = Some(x_api_key),
                                  !.authorization = Some(authorization)]
       IN  IF ~IsSome(api_key) \/ ~parse_str(Unwrap(api_key)).ok \/ ~IsSome(project)
           THEN Reply(p, R("Unauthorized", ""))
                /\ UNCHANGED <<folders, blobs, dirty>>
           ELSE IF IsSome(folder_path) /\ IsSome(upload_path_error(Unwrap(folder_path)))
           THEN Reply(p, R("BadRequest", Unwrap(upload_path_error(Unwrap(folder_path)))))
                /\ UNCHANGED <<folders, blobs, dirty>>
           ELSE /\ Cardinality(UsedFileIds) < bound.files
                /\ IF IsSome(folder_path) /\ ~IsSome(folder)
                   THEN /\ Len(folders) < bound.folders
                        /\ folders' = Append(folders,
                               Folder(NewFolderId, Unwrap(project).id,
                                      Unwrap(folder_path), Unwrap(project).is_public))
                   ELSE UNCHANGED folders
                /\ blobs' = blobs \cup {storage_path}
                /\ dirty' = dirty \cup {storage_path}
                /\ Goto(p, "insert_file",
                        [file_id |-> NewFileId,
                         project_id |-> Unwrap(project).id,
                         folder_id |-> IF ~IsSome(folder_path) THEN None
                                       ELSE IF IsSome(folder) THEN Some(Unwrap(folder).id)
                                       ELSE Some(NewFolderId),
                         storage_path |-> storage_path,
                         x_api_key |-> x_api_key,
                         authorization |-> authorization])
    /\ UNCHANGED <<config, now, users, refresh_tokens, pre_change, bound, request,
                   payload, projects, files>>

\* upload_file from "Save to database" on: the INSERT INTO files and the
\* response
upload_file_insert(p) ==
    /\ pc[p] = "insert_file"
    /\ files' = Append(files, File(loc[p].file_id, loc[p].project_id, loc[p].folder_id,
                                   loc[p].storage_path))
    /\ Reply(p, [Response("upload_file", "Ok", "") EXCEPT
                     !.x_api_key = Some(loc[p].x_api_key),
                     !.authorization = Some(loc[p].authorization),
                     !.file = Some(loc[p].file_id)])
    /\ UNCHANGED <<config, now, users, refresh_tokens, pre_change, bound, request,
                   payload, projects, folders, blobs, dirty>>

\* The blocking pool has written the bytes handed to it by write_all and the
\* operating system has written the file and its directory entry back.
writeback ==
    /\ resp = NoResp
    /\ \E storage_path \in dirty : dirty' = dirty \ {storage_path}
    /\ UNCHANGED <<config, now, users, refresh_tokens, pc, loc, resp, pre_change, bound,
                   request, payload, projects, folders, files, blobs>>

\* The server stops while a request is in progress: the tasks and the
\* response in flight are gone, the rows committed stay, and of the files
\* that have not reached stable storage any may be missing after the restart.
crash ==
    /\ resp /= NoResp \/ \E p \in Procs : pc[p] /= "idle"
    /\ pc' = [p \in Procs |-> "idle"]
    /\ loc' = [p \in Procs |-> NoLoc]
    /\ resp' = NoResp
    /\ \E lost \in SUBSET dirty : blobs' = blobs \ lost
    /\ dirty' = {}
    /\ UNCHANGED <<config, now, users, refresh_tokens, pre_change, bound, request,
                   payload, projects, folders, files>>

\* download_file; the route is public and the handler reads no header but
\* X-API-Key, so the Authorization header only travels with the request
download_file(p, file_id, x_api_key, api_key, authorization) ==
    /\ LET file == Find(files, file_id)
           project == Find(projects, Unwrap(file).project_id)
           R(status, msg) == [Response("download_file", status, msg) EXCEPT
                                  !.file = Some(file_id), !.x_api_key = Some(x_api_key),
                                  !.api_key = api_key, !.authorization = authorization]
       IN  IF ~IsSome(file) THEN Reply(p, R("NotFound", "File not found"))
           ELSE IF ~IsSome(project) THEN Reply(p, R("NotFound", "Project not found"))
           ELSE IF ~AccessGranted(Unwrap(file), Unwrap(project), x_api_key, api_key)
           THEN Reply(p, R("Unauthorized", ""))
           ELSE Reply(p, R("Ok", ""))
    /\ UNCHANGED <<config, now, users, refresh_tokens, pre_change, bound, request, payload, tables>>

\* download_file up to its access check: the SELECT of the file and the
\* SELECT of its project
download_file_select(p, file_id, x_api_key, api_key) ==
    /\ pc[p] = "idle"
    /\ LET file == Find(files, file_id)
           project == Find(projects, Unwrap(file).project_id)
           R(status, msg) == [Response("download_file", status, msg) EXCEPT
                                  !.file = Some(file_id), !.x_api_key = Some(x_api_key),
                                  !.api_key = api_key]
       IN  IF ~IsSome(file) THEN Reply(p, R("NotFound", "File not found"))
           ELSE IF ~IsSome(project) THEN Reply(p, R("NotFound", "Project not found"))
           ELSE Goto(p, "select_folder",
                     [file |-> Unwrap(file), project |-> Unwrap(project),
                      x_api_key |-> x_api_key, api_key |-> api_key])
    /\ UNCHANGED <<config, now, users, refresh_tokens, pre_change, bound, request, payload, tables>>

\* download_file from its access check on: the SELECT of the folder for a
\* file with a folder_id in a private project, the key check, fs::read
download_file_serve(p) ==
    /\ pc[p] = "select_folder"
    /\ LET R(status, msg) == [Response("download_file", status, msg) EXCEPT
                                  !.file = Some(loc[p].file.id),
                                  !.x_api_key = Some(loc[p].x_api_key),
                                  !.api_key = loc[p].api_key]
       IN  IF ~AccessGranted(loc[p].file, loc[p].project, loc[p].x_api_key, loc[p].api_key)
           THEN Reply(p, R("Unauthorized", ""))
           ELSE IF loc[p].file.file_path \notin blobs
           THEN Reply(p, R("FileError", "Failed to read file"))
           ELSE Reply(p, R("Ok", ""))
    /\ UNCHANGED <<config, now, users, refresh_tokens, pre_change, bound, request, payload, tables>>

\* DELETE FROM files WHERE id = ANY($1)
DeleteRows(rows, ids) == SelectSeq(rows, LAMBDA row : row.id \notin ids)

\* the X-API-Key check of delete_file against the file's project
DeleteKeyAccepted(project, x_api_key) ==
    /\ IsSome(to_str(x_api_key))
    /\ parse_str(Unwrap(to_str(x_api_key))).ok
    /\ parse_str(Unwrap(to_str(x_api_key))).val = project.api_key

\* delete_file as the handler: optional_user (the parameter optional_auth of
\* the source) is the value of its extractor
\* OptionalAuthUser, the AuthUser of the request's extensions if there is one.
\* The blob goes first, then the row.
delete_file(p, authorization, optional_user, x_api_key, file_id) ==
    /\ LET file == Find(files, file_id)
           project == Find(projects, Unwrap(file).project_id)
           authorized == IF IsSome(optional_user)
                         THEN Unwrap(project).user_id = Unwrap(optional_user).id
                         ELSE DeleteKeyAccepted(Unwrap(project), x_api_key)
           R(status, msg) == [Response("delete_file", status, msg) EXCEPT
                                  !.file = Some(file_id), !.x_api_key = Some(x_api_key),
                                  !.authorization = Some(authorization),
                                  !.identity = optional_user]
       IN  IF ~IsSome(file)
           THEN Reply(p, R("NotFound", "File not found")) /\ UNCHANGED <<files, blobs, dirty>>
           ELSE IF ~IsSome(project)
           THEN Reply(p, R("NotFound", "Project not found")) /\ UNCHANGED <<files, blobs, dirty>>
           ELSE IF ~authorized
           THEN Reply(p, R("Unauthorized", "")) /\ UNCHANGED <<files, blobs, dirty>>
           ELSE /\ blobs' = blobs \ {Unwrap(file).file_path}
                /\ dirty' = dirty \cap blobs'
                /\ files' = DeleteRows(files, {file_id})
                /\ Reply(p, R("Ok", "File deleted successfully"))
    /\ UNCHANGED <<config, now, users, refresh_tokens, pre_change, bound, request,
                   payload, projects, folders>>

\* bulk_delete_files as the handler; file_ids is the Vec of the body, which
\* may name an id twice or name no row
bulk_delete_files(p, authorization, optional_user, x_api_key, file_ids) ==
    /\ LET ids == {file_ids[i] : i \in 1..Len(file_ids)}
           all_files == SelectSeq(files, LAMBDA f : f.id \in ids)
           api_key == to_str(x_api_key)
           project == FindByApiKey(parse_str(Unwrap(api_key)).val)
           owned == SelectSeq(all_files,
                        LAMBDA f : /\ IsSome(Find(projects, f.project_id))
                                   /\ Unwrap(Find(projects, f.project_id)).user_id
                                          = Unwrap(optional_user).id)
           files_in_project == SelectSeq(all_files, LAMBDA f : f.project_id = Unwrap(project).id)
           authorized_files == IF IsSome(optional_user) THEN owned ELSE files_in_project
           deleted == {authorized_files[i].id : i \in 1..Len(authorized_files)}
           R(status, msg) == [Response("bulk_delete_files", status, msg) EXCEPT
                                  !.file_ids = file_ids, !.x_api_key = Some(x_api_key),
                                  !.authorization = Some(authorization),
                                  !.identity = optional_user]
       IN  IF file_ids = <<>>
           THEN Reply(p, R("Ok", "No files to delete")) /\ UNCHANGED <<files, blobs, dirty>>
           ELSE IF all_files = <<>>
           THEN Reply(p, R("NotFound", "No files found")) /\ UNCHANGED <<files, blobs, dirty>>
           ELSE IF ~IsSome(optional_user)
                   /\ (~IsSome(api_key) \/ ~parse_str(Unwrap(api_key)).ok \/ ~IsSome(project))
           THEN Reply(p, R("Unauthorized", "")) /\ UNCHANGED <<files, blobs, dirty>>
           ELSE IF ~IsSome(optional_user) /\ Len(files_in_project) /= Len(file_ids)
           THEN Reply(p, R("BadRequest",
                           "With API key auth, all files must belong to the same project"))
                /\ UNCHANGED <<files, blobs, dirty>>
           ELSE IF authorized_files = <<>>
           THEN Reply(p, R("NotFound",
                           "No files found or you don't have permission to delete them"))
                /\ UNCHANGED <<files, blobs, dirty>>
           ELSE /\ blobs' = blobs \ {authorized_files[i].file_path :
                                          i \in 1..Len(authorized_files)}
                /\ dirty' = dirty \cap blobs'
                /\ files' = DeleteRows(files, deleted)
                /\ Reply(p, [R("Ok", "Files deleted successfully") EXCEPT
                                 !.count = Len(authorized_files)])
    /\ UNCHANGED <<config, now, users, refresh_tokens, pre_change, bound, request,
                   payload, projects, folders>>

\* delete_folder_files: the files of the folder at folder_path in the key's
\* project, the folder's row, then remove_dir_all on the folder's directory
delete_folder_files(p, x_api_key, folder_path) ==
    /\ LET api_key == to_str(x_api_key)
           project == FindByApiKey(parse_str(Unwrap(api_key)).val)
           folder == FindFolderAt(Unwrap(project).id, folder_path)
           R(status, msg) == [Response("delete_folder_files", status, msg) EXCEPT
                                  !.x_api_key = Some(x_api_key)]
       IN  IF ~IsSome(api_key) \/ ~parse_str(Unwrap(api_key)).ok \/ ~IsSome(project)
           THEN Reply(p, R("Unauthorized", ""))
                /\ UNCHANGED <<folders, files, blobs, dirty>>
           ELSE IF IsSome(delete_path_error(folder_path))
           THEN Reply(p, R("BadRequest", Unwrap(delete_path_error(folder_path))))
                /\ UNCHANGED <<folders, files, blobs, dirty>>
           ELSE IF ~IsSome(folder)
           THEN Reply(p, R("Ok", "Folder files deleted successfully"))
                /\ UNCHANGED <<folders, files, blobs, dirty>>
           ELSE /\ files' = SelectSeq(files,
                                LAMBDA f : f.folder_id /= Some(Unwrap(folder).id))
                /\ folders' = DeleteRows(folders, {Unwrap(folder).id})
                /\ blobs' = {blob \in blobs :
                                /\ \A i \in 1..Len(files) :
                                       files[i].folder_id = Some(Unwrap(folder).id)
                                           => blob /= files[i].file_path
                                /\ ~Under(blob, Unwrap(project).id, Directory(folder_path))}
                /\ dirty' = dirty \cap blobs'
                /\ Reply(p, [R("Ok", "Folder files deleted successfully") EXCEPT
                                 !.count = Cardinality({i \in 1..Len(files) :
                                               files[i].folder_id = Some(Unwrap(folder).id)})])
    /\ UNCHANGED <<config, now, users, refresh_tokens, pre_change, bound, request,
                   payload, projects>>

\* delete_folder_files up to its writes: the key, the project, the path
\* checks, the SELECT of the folder and the SELECT of its files
delete_folder_files_select(p, x_api_key, folder_path) ==
    /\ pc[p] = "idle"
    /\ LET api_key == to_str(x_api_key)
           project == FindByApiKey(parse_str(Unwrap(api_key)).val)
           folder == FindFolderAt(Unwrap(project).id, folder_path)
           R(status, msg) == [Response("delete_folder_files", status, msg) EXCEPT
                                  !.x_api_key = Some(x_api_key)]
       IN  IF ~IsSome(api_key) \/ ~parse_str(Unwrap(api_key)).ok \/ ~IsSome(project)
           THEN Reply(p, R("Unauthorized", ""))
           ELSE IF IsSome(delete_path_error(folder_path))
           THEN Reply(p, R("BadRequest", Unwrap(delete_path_error(folder_path))))
           ELSE IF ~IsSome(folder)
           THEN Reply(p, R("Ok", "Folder files deleted successfully"))
           ELSE Goto(p, "delete_rows",
                     [project_id |-> Unwrap(project).id,
                      folder_id |-> Unwrap(folder).id,
                      folder_path |-> folder_path,
                      listed |-> {files[i].file_path :
                                     i \in {k \in 1..Len(files) :
                                               files[k].folder_id = Some(Unwrap(folder).id)}},
                      x_api_key |-> x_api_key])
    /\ UNCHANGED <<config, now, users, refresh_tokens, pre_change, bound, request, payload, tables>>

\* fs::remove_file of every file the SELECT listed, DELETE FROM files WHERE
\* folder_id = $1, DELETE FROM folders WHERE id = $1
delete_folder_files_rows(p) ==
    /\ pc[p] = "delete_rows"
    /\ blobs' = blobs \ loc[p].listed
    /\ dirty' = dirty \cap blobs'
    /\ files' = SelectSeq(files, LAMBDA f : f.folder_id /= Some(loc[p].folder_id))
    /\ folders' = DeleteRows(folders, {loc[p].folder_id})
    /\ Goto(p, "remove_dir", loc[p])
    /\ UNCHANGED <<config, now, users, refresh_tokens, pre_change, bound, request,
                   payload, projects>>

\* fs::remove_dir_all of the folder's directory, then the response
delete_folder_files_remove_dir(p) ==
    /\ pc[p] = "remove_dir"
    /\ blobs' = {blob \in blobs :
                    ~Under(blob, loc[p].project_id, Directory(loc[p].folder_path))}
    /\ dirty' = dirty \cap blobs'
    /\ Reply(p, [Response("delete_folder_files", "Ok", "Folder files deleted successfully")
                     EXCEPT !.x_api_key = Some(loc[p].x_api_key),
                            !.count = Cardinality(loc[p].listed)])
    /\ UNCHANGED <<config, now, users, refresh_tokens, pre_change, bound, request,
                   payload, projects, folders, files>>

(* ------------------------------- main.rs ------------------------------- *)
\* DELETE /api/files/:id is one of protected_routes: require_auth runs first
\* and answers itself when it rejects; otherwise the handler's extractor finds
\* the AuthUser that require_auth put into the extensions.
delete_file_route(p, authorization, x_api_key, file_id) ==
    LET gate == require_auth(authorization, now)
    IN  IF gate.ok
        THEN delete_file(p, authorization, Some(gate.val), x_api_key, file_id)
        ELSE /\ Reply(p, [Response("delete_file", gate.err, "") EXCEPT
                              !.file = Some(file_id), !.x_api_key = Some(x_api_key),
                              !.authorization = Some(authorization)])
             /\ UNCHANGED <<config, now, users, refresh_tokens, pre_change, bound, request,
                            payload, tables>>

\* the answers of the Router to a request that matches none of its routes: no
\* route, or a path that has routes for other methods only
Fallbacks == {"NotFound", "MethodNotAllowed"}

\* A bulk delete request.  No route of the Router is mounted on
\* bulk_delete_files and no layer is built from optional_auth, so the Router
\* answers and no handler runs.
bulk_delete_route(p, authorization, x_api_key, file_ids, fallback) ==
    /\ Reply(p, [Response("bulk_delete", fallback, "") EXCEPT
                     !.file_ids = file_ids, !.x_api_key = Some(x_api_key),
                     !.authorization = Some(authorization)])
    /\ UNCHANGED <<config, now, users, refresh_tokens, pre_change, bound, request,
                   payload, tables>>

(* ------------------------- middleware/auth.rs -------------------------- *)
\* require_auth on the request: the identity is put into the extensions and
\* the handler runs, or the gate answers itself
require_auth_request(p) ==
    /\ Idle(p)
    /\ LET gate == require_auth(request, now)
       IN  Reply(p, IF gate.ok
                    THEN [Response("require_auth", "Next", "") EXCEPT
                              !.identity = Some(gate.val)]
                    ELSE Response("require_auth", gate.err, ""))
    /\ UNCHANGED <<config, now, users, refresh_tokens, pre_change, bound, request, payload, tables>>

\* optional_auth on the request: the handler always runs
optional_auth_request(p) ==
    /\ Idle(p)
    /\ Reply(p, [Response("optional_auth", "Next", "") EXCEPT
                     !.identity = optional_auth(request, now)])
    /\ UNCHANGED <<config, now, users, refresh_tokens, pre_change, bound, request, payload, tables>>

Tick ==
    /\ now < bound.clock
    /\ resp = NoResp
    /\ now' = now + 1
    /\ resp' = NoResp
    /\ UNCHANGED <<config, users, refresh_tokens, pc, loc, pre_change, bound, request, payload, tables>>

(* --------------------------- specification ----------------------------- *)
vars == <<config, now, users, refresh_tokens, pc, loc, resp, pre_change, bound,
          request, payload, projects, folders, files, blobs, dirty>>

\* After main(): migrations have run and ensure_admin_user has inserted the
\* administrator with must_change_password = TRUE.  tasks are the requests
\* that may be in flight together.
Boot(tasks, allow_signup, rows, clock) ==
    /\ config = [allow_signup |-> allow_signup]
    /\ now = 0
    /\ users = [u \in UserIds |->
                   IF u = "u1" THEN Some(UserRow(hash_password("admin"), TRUE)) ELSE None]
    /\ refresh_tokens = <<>>
    /\ pc = [p \in tasks |-> "idle"]
    /\ loc = [p \in tasks |-> NoLoc]
    /\ resp = NoResp
    /\ pre_change = {}
    /\ bound = [rows |-> rows, clock |-> clock, projects |-> 0, folders |-> 0, files |-> 0]
    /\ request = NoHeader
    /\ payload = None
    /\ projects = <<>> /\ folders = <<>> /\ files = <<>> /\ blobs = {} /\ dirty = {}

\* three deployments: two overlapping requests against the administrator's
\* sessions; open signup; a running clock
Init ==
    \/ Boot({"p1", "p2"}, FALSE, MaxRows, 0)
    \/ Boot({"p1"}, TRUE, MaxRows, 0)
    \/ Boot({"p1"}, FALSE, MaxRows, MaxTime)

Next ==
    \/ Tick
    \/ into_response
    \/ \E p \in Procs : Idle(p) /\ \E email \in Emails, password \in Passwords :
          register(p, email, password)
    \/ \E p \in Procs : Idle(p) /\ \E email \in Emails, password \in Passwords :
          login(p, email, password)
    \/ \E p \in Procs : Idle(p) /\ \E token \in PresentedTokens : refresh_token(p, token)
    \/ \E p \in Procs : refresh_token_reuse(p)
    \/ \E p \in Procs : refresh_token_revoke(p)
    \/ \E p \in Procs : refresh_token_insert(p)
    \/ \E p \in Procs : Idle(p) /\ \E gate \in GateResults : gate_reject(p, gate)
    \/ \E p \in Procs : Idle(p) /\ \E gate \in GateResults, refresh \in LogoutBodies :
          logout(p, gate, refresh)
    \/ \E p \in Procs : Idle(p) /\ \E gate \in GateResults : logout_all(p, gate)
    \/ \E p \in Procs : Idle(p) /\ \E gate \in GateResults,
          current_password \in Passwords, new_password \in Passwords :
          change_password(p, gate, current_password, new_password)
    \/ \E p \in Procs : change_password_revoke(p)

Spec == Init /\ [][Next]_vars

\* Overlapping rotations only: three requests in flight, the administrator
\* logging in and refresh tokens of the store being presented.
InitRace == Boot({"p1", "p2", "p3"}, FALSE, MaxRaceRows, 0)

NextRace ==
    \/ into_response
    \/ \E p \in Procs : login(p, "u1", "admin")
    \/ \E p \in Procs : Idle(p) /\ \E r \in Rows : refresh_token(p, RefreshTokenOf(r))
    \/ \E p \in Procs : refresh_token_reuse(p)
    \/ \E p \in Procs : refresh_token_revoke(p)
    \/ \E p \in Procs : refresh_token_insert(p)

SpecRace == InitRace /\ [][NextRace]_vars

\* Rotation against a database whose INSERT may fail: the deployments of
\* Init, sessions issued by login and register and presented to rotate.
NextFault ==
    \/ Tick
    \/ into_response
    \/ \E p \in Procs : Idle(p) /\ \E email \in Emails, password \in Passwords :
          register(p, email, password)
    \/ \E p \in Procs : Idle(p) /\ \E email \in Emails, password \in Passwords :
          login(p, email, password)
    \/ \E p \in Procs : Idle(p) /\ \E token \in PresentedTokens : refresh_token(p, token)
    \/ \E p \in Procs : refresh_token_reuse(p)
    \/ \E p \in Procs : refresh_token_revoke(p)
    \/ \E p \in Procs : refresh_token_insert(p)
    \/ \E p \in Procs : refresh_token_insert_error(p)

SpecFault == Init /\ [][NextFault]_vars

\* The gate alone: one request whose Authorization header is any of
\* GateRequests, passed through either middleware while the clock runs.
InitGate ==
    /\ config = [allow_signup |-> FALSE]
    /\ now = 0
    /\ users = [u \in UserIds |-> Some(UserRow(hash_password("hunter22"), FALSE))]
    /\ refresh_tokens = <<>>
    /\ pc = [p \in {"p1"} |-> "idle"]
    /\ loc = [p \in {"p1"} |-> NoLoc]
    /\ resp = NoResp
    /\ pre_change = {}
    /\ bound = [rows |-> 0, clock |-> MaxGateTime, projects |-> 0, folders |-> 0, files |-> 0]
    /\ request \in GateRequests
    /\ payload = None
    /\ projects = <<>> /\ folders = <<>> /\ files = <<>> /\ blobs = {} /\ dirty = {}

NextGate ==
    \/ Tick
    \/ into_response
    \/ \E p \in Procs : require_auth_request(p)
    \/ \E p \in Procs : optional_auth_request(p)

SpecGate == InitGate /\ [][NextGate]_vars

\* The tokens the running system issues, at the gate: every bearer credential
\* is a token out of a response of register, login, refresh, register-legacy
\* or login-legacy.
NextLegacy ==
    \/ Tick
    \/ into_response
    \/ bearer_request
    \/ \E p \in Procs : Idle(p) /\ \E email \in Emails, password \in Passwords :
          register(p, email, password)
    \/ \E p \in Procs : Idle(p) /\ \E email \in Emails, password \in Passwords :
          login(p, email, password)
    \/ \E p \in Procs : Idle(p) /\ \E r \in Rows : refresh_token(p, RefreshTokenOf(r))
    \/ \E p \in Procs : refresh_token_reuse(p)
    \/ \E p \in Procs : refresh_token_revoke(p)
    \/ \E p \in Procs : refresh_token_insert(p)
    \/ \E p \in Procs : Idle(p) /\ \E email \in Emails, password \in Passwords :
          login_legacy(p, email, password)
    \/ \E p \in Procs : Idle(p) /\ \E email \in Emails, password \in Passwords :
          register_legacy(p, email, password)
    \/ \E p \in Procs : require_auth_request(p)

SpecLegacy == Init /\ [][NextLegacy]_vars

\* Storage: both users registered (the second through register, which left
\* its refresh-token row), one request at a time, no clock.
Storage(max_projects, max_folders, max_files) ==
    /\ config = [allow_signup |-> TRUE]
    /\ now = 0
    /\ users = [u \in UserIds |->
                   IF u = "u1" THEN Some(UserRow(hash_password("admin"), TRUE))
                   ELSE Some(UserRow(hash_password("hunter22"), FALSE))]
    /\ refresh_tokens = create_token_pair(<<>>, "u2", 0)
    /\ pc = [p \in {"p1"} |-> "idle"]
    /\ loc = [p \in {"p1"} |-> NoLoc]
    /\ resp = NoResp
    /\ pre_change = {}
    /\ bound = [rows |-> 1, clock |-> 0, projects |-> max_projects,
                folders |-> max_folders, files |-> max_files]
    /\ request = NoHeader
    /\ projects = <<>> /\ folders = <<>> /\ files = <<>> /\ blobs = {} /\ dirty = {}

\* two deployments: several projects without folders; one project with folders
InitFiles ==
    /\ payload = None
    /\ \/ Storage(MaxProjects, 0, MaxFiles)
       \/ Storage(1, MaxFolders, MaxFiles)

Flags == {None, Some(TRUE), Some(FALSE)}

NextFiles ==
    \/ into_response
    \/ \E p \in Procs : Idle(p) /\ \E gate \in GateResults : gate_reject(p, gate)
    \/ \E p \in Procs : Idle(p) /\ \E gate \in GateResults, is_public \in Flags :
          create_project(p, gate, is_public)
    \/ \E p \in Procs : Idle(p) /\ \E gate \in GateResults, id \in ProjectIds,
          is_public \in Flags : update_project(p, gate, id, is_public)
    \/ \E p \in Procs : Idle(p) /\ \E gate \in GateResults, id \in ProjectIds :
          regenerate_api_key(p, gate, id)
    \/ \E p \in Procs : Idle(p) /\ \E gate \in GateResults, id \in ProjectIds,
          path \in Paths, is_public \in Flags : create_folder(p, gate, id, path, is_public)
    \/ \E p \in Procs : Idle(p) /\ \E gate \in GateResults, id \in FolderIds,
          is_public \in BOOLEAN : update_folder_visibility(p, gate, id, is_public)
    \/ \E p \in Procs : Idle(p) /\ \E x_api_key \in ApiKeyHeaders,
          folder_path \in {None} \cup {Some(path) : path \in Paths} :
          \E authorization \in UploadHeaders :
              upload_file(p, x_api_key, authorization, folder_path)
    \/ \E p \in Procs : upload_file_insert(p)
    \/ \E p \in Procs : Idle(p) /\ \E file_id \in FileIds, x_api_key \in ApiKeyHeaders,
          api_key \in ApiKeyParams : \E authorization \in OwnerTokens(file_id) :
          download_file(p, file_id, x_api_key, api_key, authorization)

SpecFiles == InitFiles /\ [][NextFiles]_vars

\* Uploads while the server may stop: the deployments of InitFiles, uploads
\* with and without a folder, downloads, the write-back of the files written
\* and the crash.
NextUpload ==
    \/ into_response
    \/ writeback
    \/ crash
    \/ \E p \in Procs : Idle(p) /\ \E gate \in GateResults : create_project(p, gate, None)
    \/ \E p \in Procs : Idle(p) /\ \E x_api_key \in ApiKeyHeaders,
          folder_path \in {None} \cup {Some(path) : path \in Paths} :
          upload_file(p, x_api_key, NoHeader, folder_path)
    \/ \E p \in Procs : upload_file_insert(p)

SpecUpload == InitFiles /\ [][NextUpload]_vars

\* Deleting files as the Router serves it: projects of both users, uploads
\* without a folder, single and bulk delete requests.
InitDelete == payload = None /\ Storage(MaxProjects, 0, MaxDeleteFiles)

NextDelete ==
    \/ into_response
    \/ \E p \in Procs : Idle(p) /\ \E gate \in GateResults : create_project(p, gate, None)
    \/ \E p \in Procs : Idle(p) /\ \E x_api_key \in ApiKeyHeaders :
          upload_file(p, x_api_key, NoHeader, None)
    \/ \E p \in Procs : upload_file_insert(p)
    \/ \E p \in Procs : Idle(p) /\ \E authorization \in AuthHeaders,
          x_api_key \in ApiKeyHeaders, file_id \in FileIds :
          delete_file_route(p, authorization, x_api_key, file_id)
    \/ \E p \in Procs : Idle(p) /\ \E authorization \in AuthHeaders,
          x_api_key \in ApiKeyHeaders, file_ids \in FileIdLists, fallback \in Fallbacks :
          bulk_delete_route(p, authorization, x_api_key, file_ids, fallback)

SpecDelete == InitDelete /\ [][NextDelete]_vars

\* The routes of projects and folders behind require_auth, for every
\* identity the gate admits and every project and folder id, over a project
\* of either user that uploads have filled; create_folder with a path that
\* passes validation and with the empty one.
InitOwner == payload = None /\ Storage(1, MaxFolders, MaxFiles)

NextOwner ==
    \/ into_response
    \/ \E p \in Procs : Idle(p) /\ \E gate \in GateResults : gate_reject(p, gate)
    \/ \E p \in Procs : Idle(p) /\ \E gate \in GateResults, is_public \in Flags :
          create_project(p, gate, is_public)
    \/ \E p \in Procs : Idle(p) /\ \E gate \in GateResults, id \in ProjectIds,
          is_public \in Flags : update_project(p, gate, id, is_public)
    \/ \E p \in Procs : Idle(p) /\ \E gate \in GateResults, id \in ProjectIds :
          delete_project(p, gate, id)
    \/ \E p \in Procs : Idle(p) /\ \E gate \in GateResults, id \in ProjectIds :
          regenerate_api_key(p, gate, id)
    \/ \E p \in Procs : Idle(p) /\ \E gate \in GateResults, id \in ProjectIds,
          path \in Paths \cup {<<>>}, is_public \in Flags :
          create_folder(p, gate, id, path, is_public)
    \/ \E p \in Procs : Idle(p) /\ \E gate \in GateResults, id \in ProjectIds :
          list_folders(p, gate, id)
    \/ \E p \in Procs : Idle(p) /\ \E gate \in GateResults, id \in ProjectIds :
          list_project_files(p, gate, id)
    \/ \E p \in Procs : Idle(p) /\ \E gate \in GateResults, id \in FolderIds,
          is_public \in BOOLEAN : update_folder_visibility(p, gate, id, is_public)
    \/ \E p \in Procs : Idle(p) /\ \E x_api_key \in ApiKeyHeaders,
          folder_path \in {None} \cup {Some(path) : path \in Paths} :
          upload_file(p, x_api_key, NoHeader, folder_path)
    \/ \E p \in Procs : upload_file_insert(p)

SpecOwner == InitOwner /\ [][NextOwner]_vars

\* The operations that take an API key, on a project whose key is
\* regenerated: every request is sent with no key, with a key the project
\* holds and with every key that has been or will be issued.
NextKeys ==
    \/ into_response
    \/ \E p \in Procs : Idle(p) /\ \E gate \in GateResults : create_project(p, gate, None)
    \/ \E p \in Procs : Idle(p) /\ \E gate \in GateResults, id \in ProjectIds :
          regenerate_api_key(p, gate, id)
    \/ \E p \in Procs : Idle(p) /\
          \E x_api_key \in ApiKeyHeaders \cup {TextKey(UuidText(k)) : k \in 1..MaxKeys},
             folder_path \in {None, Some(<<"d">>)} :
          upload_file(p, x_api_key, NoHeader, folder_path)
    \/ \E p \in Procs : upload_file_insert(p)
    \/ \E p \in Procs : Idle(p) /\
          \E x_api_key \in ApiKeyHeaders \cup {TextKey(UuidText(k)) : k \in 1..MaxKeys},
             api_key \in {None} \cup {Some(UuidText(k)) : k \in 1..MaxKeys},
             file_id \in FileIds :
          download_file(p, file_id, x_api_key, api_key, None)
    \/ \E p \in Procs : Idle(p) /\
          \E x_api_key \in ApiKeyHeaders \cup {TextKey(UuidText(k)) : k \in 1..MaxKeys} :
          delete_folder_files(p, x_api_key, <<"d">>)
    \/ \E p \in Procs : Idle(p) /\
          \E x_api_key \in ApiKeyHeaders \cup {TextKey(UuidText(k)) : k \in 1..MaxKeys},
             file_id \in FileIds :
          delete_file_route(p, NoHeader, x_api_key, file_id)
    \/ \E p \in Procs : Idle(p) /\
          \E x_api_key \in ApiKeyHeaders \cup {TextKey(UuidText(k)) : k \in 1..MaxKeys},
             file_ids \in FileIdLists, fallback \in Fallbacks :
          bulk_delete_route(p, NoHeader, x_api_key, file_ids, fallback)

SpecKeys == InitOwner /\ [][NextKeys]_vars

\* Serving and deleting at once: two requests in flight on one project that
\* holds the folder "d" and the folder "d/i" nested in it; uploads, downloads
\* and delete_folder_files statement by statement.
InitServe ==
    /\ config = [allow_signup |-> TRUE]
    /\ now = 0
    /\ users = [u \in UserIds |->
                   IF u = "u1" THEN Some(UserRow(hash_password("admin"), TRUE))
                   ELSE Some(UserRow(hash_password("hunter22"), FALSE))]
    /\ refresh_tokens = create_token_pair(<<>>, "u2", 0)
    /\ pc = [p \in {"p1", "p2"} |-> "idle"]
    /\ loc = [p \in {"p1", "p2"} |-> NoLoc]
    /\ resp = NoResp
    /\ pre_change = {}
    /\ bound = [rows |-> 1, clock |-> 0, projects |-> 1,
                folders |-> MaxNested, files |-> MaxFiles]
    /\ request = NoHeader
    /\ payload = None
    /\ projects = <<>> /\ folders = <<>> /\ files = <<>> /\ blobs = {} /\ dirty = {}

\* The INSERT of an upload whose folder row has been deleted since its upsert
\* depends on the foreign key of files.folder_id, which the migrations set
\* and the sources do not show: such an upload is not followed further.
NextServe ==
    \/ into_response
    \/ \E p \in Procs : Idle(p) /\ \E gate \in GateResults : create_project(p, gate, None)
    \/ \E p \in Procs : Idle(p) /\ \E gate \in GateResults, id \in ProjectIds,
          path \in {<<"d">>, <<"d", "/", "i">>} : create_folder(p, gate, id, path, None)
    \/ \E p \in Procs : Idle(p) /\ \E x_api_key \in ApiKeyHeaders, path \in {<<"d">>, <<"d", "/", "i">>} :
          upload_file(p, x_api_key, NoHeader, Some(path))
    \/ \E p \in Procs :
          /\ pc[p] = "insert_file"
          /\ IsSome(loc[p].folder_id) => IsSome(Find(folders, Unwrap(loc[p].folder_id)))
          /\ upload_file_insert(p)
    \/ \E p \in Procs : Idle(p) /\ \E file_id \in FileIds, x_api_key \in ApiKeyHeaders :
          download_file_select(p, file_id, x_api_key, None)
    \/ \E p \in Procs : download_file_serve(p)
    \/ \E p \in Procs : Idle(p) /\ \E x_api_key \in ApiKeyHeaders, path \in {<<"d">>, <<"d", "/", "i">>} :
          delete_folder_files_select(p, x_api_key, path)
    \/ \E p \in Procs : delete_folder_files_rows(p)
    \/ \E p \in Procs : delete_folder_files_remove_dir(p)

SpecServe == InitServe /\ [][NextServe]_vars

\* The path-based operations on one project, for every text the folder path
\* of a request can be: an upload sends it as the field folder_path,
\* create_folder as path, delete_folder_files as folder_path.
InitPaths ==
    /\ payload \in {Some(text) : text \in PathTexts}
    /\ Storage(1, MaxFolders, MaxFiles)

NextPaths ==
    \/ into_response
    \/ \E p \in Procs : Idle(p) /\ \E gate \in GateResults : create_project(p, gate, None)
    \/ \E p \in Procs : Idle(p) /\ \E x_api_key \in ApiKeyHeaders :
          upload_file(p, x_api_key, NoHeader, payload)
    \/ \E p \in Procs : upload_file_insert(p)
    \/ \E p \in Procs : Idle(p) /\ \E gate \in GateResults, id \in ProjectIds :
          create_folder(p, gate, id, Unwrap(payload), None)
    \/ \E p \in Procs : Idle(p) /\ \E x_api_key \in ApiKeyHeaders :
          delete_folder_files(p, x_api_key, Unwrap(payload))

SpecPaths == InitPaths /\ [][NextPaths]_vars

\* The handlers of file.rs by themselves, applied to every value their
\* extractors can hand them: OptionalAuthUser with and without an AuthUser.
OptionalAuthUsers ==
    {None} \cup {Some(AuthUser(u, EmailOf(u), RoleOf(u))) : u \in {v \in UserIds : IsSome(users[v])}}

NextHandlers ==
    \/ into_response
    \/ \E p \in Procs : Idle(p) /\ \E gate \in GateResults : create_project(p, gate, None)
    \/ \E p \in Procs : Idle(p) /\ \E x_api_key \in ApiKeyHeaders :
          upload_file(p, x_api_key, NoHeader, None)
    \/ \E p \in Procs : upload_file_insert(p)
    \/ \E p \in Procs : Idle(p) /\ \E optional_user \in OptionalAuthUsers,
          x_api_key \in ApiKeyHeaders, file_id \in FileIds :
          delete_file(p, NoHeader, optional_user, x_api_key, file_id)
    \/ \E p \in Procs : Idle(p) /\ \E optional_user \in OptionalAuthUsers,
          x_api_key \in ApiKeyHeaders, file_ids \in FileIdLists :
          bulk_delete_files(p, NoHeader, optional_user, x_api_key, file_ids)

SpecHandlers == InitDelete /\ [][NextHandlers]_vars

(* ============================ properties =============================== *)
Live(r) == ~IsSome(r.revoked_at)

RowOf(rows, id) == rows[CHOOSE i \in 1..Len(rows) : rows[i].id = id]

\* the statement a step of task p runs
Runs(p, label) == pc[p] = label /\ pc'[p] /= label

(* ---------------------------------------------------------------------- *)
\* C1: a successful rotate of a row that was read non-revoked and unexpired
\* revokes exactly that row with reason 'rotation' and inserts exactly one
\* new non-revoked row with the same family_id and a new jti; no other row
\* of the Session Store changes.
C1_RotateRevokesOneInsertsOne ==
    [][\A p \in Procs :
        /\ Runs(p, "revoke_current") =>
              /\ Len(refresh_tokens') = Len(refresh_tokens)
              /\ \A i \in 1..Len(refresh_tokens) :
                    refresh_tokens'[i] =
                        IF refresh_tokens[i].id = loc[p].id
                        THEN [refresh_tokens[i] EXCEPT !.revoked_at = Some(now),
                                                       !.revoked_reason = Some("rotation")]
                        ELSE refresh_tokens[i]
        /\ Runs(p, "insert_new") =>
              /\ Len(refresh_tokens') = Len(refresh_tokens) + 1
              /\ \A i \in 1..Len(refresh_tokens) : refresh_tokens'[i] = refresh_tokens[i]
              /\ LET new == refresh_tokens'[Len(refresh_tokens')]
                     presented == RowOf(refresh_tokens, loc[p].id)
                 IN  /\ Live(new)
                     /\ new.family_id = presented.family_id
                     /\ new.user_id = presented.user_id
                     /\ \A r \in Rows : r.id /= new.id /\ r.token_hash /= new.token_hash
                     /\ presented.revoked_reason = Some("rotation")
                     /\ resp'.status = "Ok" /\ resp'.child = Some(new.id)
      ]_vars

C1_Witness ==
    /\ resp.op = "refresh" /\ resp.status = "Ok"
    /\ RowOf(refresh_tokens, Unwrap(resp.row)).revoked_reason = Some("rotation")
    /\ Live(RowOf(refresh_tokens, Unwrap(resp.child)))
    /\ RowOf(refresh_tokens, Unwrap(resp.child)).family_id =
           RowOf(refresh_tokens, Unwrap(resp.row)).family_id

(* ---------------------------------------------------------------------- *)
\* C2: presenting an already revoked refresh token revokes every non-revoked
\* row of its family and returns TokenReuseDetected, and after that no rotate
\* attempt with a token of that family is accepted.
C2_ReuseBurnsFamily ==
    [][\A p \in Procs :
        /\ Runs(p, "revoke_family") =>
              /\ resp'.status = "TokenReuseDetected"
              /\ \A i \in 1..Len(refresh_tokens') :
                    refresh_tokens'[i].family_id = loc[p].family_id
                        => ~Live(refresh_tokens'[i])
        /\ (pc[p] = "idle" /\ pc'[p] = "revoke_current") =>
              ~\E r \in Rows : /\ r.family_id = loc'[p].family_id
                               /\ r.revoked_reason = Some("security_reuse_detected")
      ]_vars

(* ---------------------------------------------------------------------- *)
\* C3: of the rotate calls that run concurrently on the same non-revoked
\* refresh token at most one succeeds: a call passes its revoke step, and goes
\* on to mint a child, only if the row was still non-revoked when the step ran.
C3_OneWinner ==
    [][\A p \in Procs :
          Runs(p, "revoke_current") => Live(RowOf(refresh_tokens, loc[p].id))
      ]_vars

(* ---------------------------------------------------------------------- *)
\* C4: for each non-revoked row there is at most one other non-revoked row
\* with the same family_id.
C4_FamilyLiveRows ==
    \A r \in Rows :
        Live(r) => Cardinality({x \in Rows : /\ Live(x) /\ x.id /= r.id
                                             /\ x.family_id = r.family_id}) <= 1

(* ---------------------------------------------------------------------- *)
\* C5: an access token or a legacy token presented to rotate fails at
\* verification with TokenError; no row is looked up, revoked or inserted and
\* the handler runs no further statement.
C5_AccessTokenNeverRotates ==
    [][/\ \A token \in PresentedTokens :
              token.token_type /= Some("refresh") => ~verify_refresh_token(token, now).ok
       /\ (resp'.op = "refresh" /\ resp'.presented /= Some("refresh")) =>
              /\ resp'.status = "TokenError"
              /\ resp'.msg \in {"MissingField", "Invalid token type",
                                "InvalidSignature", "ExpiredSignature"}
              /\ refresh_tokens' = refresh_tokens
              /\ \A p \in Procs : pc'[p] = pc[p]
      ]_vars

C5_Witness ==
    /\ resp.op = "refresh" /\ resp.status = "TokenError"
    /\ resp.presented = Some("access")
    /\ Len(refresh_tokens) > 0

(* ---------------------------------------------------------------------- *)
IsRefreshToken(token) ==
    \E u \in UserIds, jti \in 1..MaxJti, family_id \in 1..MaxJti :
        token = create_refresh_token(u, jti, family_id, 0)

AtGate == request.form = "bearer" /\ IsRefreshToken(Unwrap(request.token))

C7_PasswordChangeRevokes ==
    [][\A p \in Procs :
        /\ Runs(p, "revoke_sessions") =>
              \A i \in 1..Len(refresh_tokens) :
                  refresh_tokens[i].user_id = loc[p].user =>
                      /\ ~Live(refresh_tokens'[i])
                      /\ Live(refresh_tokens[i]) =>
                             refresh_tokens'[i].revoked_reason = Some("password_change")
        /\ (pc[p] = "idle" /\ pc'[p] = "revoke_current") => loc'[p].id \notin pre_change
      ]_vars

C7_Witness ==
    /\ resp.op = "refresh" /\ resp.status = "TokenReuseDetected"
    /\ Unwrap(resp.row) \in pre_change
    /\ RowOf(refresh_tokens, Unwrap(resp.row)).revoked_reason = Some("password_change")

(* ---------------------------------------------------------------------- *)
\* the file, project and folder rows a download response is about
Served == Unwrap(Find(files, Unwrap(resp.file)))
ServedProject == Unwrap(Find(projects, Served.project_id))
ServedFolder == Find(folders, Unwrap(Served.folder_id))

Downloaded ==
    /\ resp.op = "download_file"
    /\ IsSome(Find(files, Unwrap(resp.file)))
    /\ IsSome(Find(projects, Served.project_id))

\* visibility by the most specific flag: the folder's if the file has a
\* folder, the project's otherwise
EffectivelyPrivate ==
    IF IsSome(Served.folder_id) /\ IsSome(ServedFolder)
    THEN ~Unwrap(ServedFolder).is_public
    ELSE ~ServedProject.is_public

\* the request carried the key of the file's project, in the header or in
\* the query parameter
KeySupplied ==
    \/ to_str(Unwrap(resp.x_api_key)) = Some(UuidText(ServedProject.api_key))
    \/ resp.api_key = Some(UuidText(ServedProject.api_key))

\* C8: download visibility follows the most specific flag: a file in a
\* folder whose is_public is false is served only with a matching API key,
\* also when its project is public, and a file with no folder in a public
\* project is served with no credential.
C8_MostSpecificFlag ==
    Downloaded =>
        /\ (/\ IsSome(Served.folder_id) /\ IsSome(ServedFolder)
            /\ ~Unwrap(ServedFolder).is_public
            /\ resp.status = "Ok") => KeySupplied
        /\ (~IsSome(Served.folder_id) /\ ServedProject.is_public) => resp.status = "Ok"

\* C9: a file whose effective visibility is private is served only when the
\* key of its project is supplied; without it (no key, a malformed key,
\* another project's key, a user's access token alone) the answer is
\* Unauthorized.
C9_PrivateNeedsProjectKey ==
    (Downloaded /\ EffectivelyPrivate /\ ~KeySupplied) => resp.status = "Unauthorized"

\* C10: when a download of a private file in a private project carries both
\* an X-API-Key header and an api_key query parameter, the header alone
\* decides: the file is served exactly if the header is the project's key.
C10_HeaderDecides ==
    (/\ Downloaded /\ EffectivelyPrivate /\ ~ServedProject.is_public
     /\ Unwrap(resp.x_api_key).form /= "absent" /\ IsSome(resp.api_key)) =>
        (resp.status = "Ok" <=>
            Unwrap(resp.x_api_key) = TextKey(UuidText(ServedProject.api_key)))

(* --------------------------- deleting files ---------------------------- *)
\* the identity the gate resolves from an Authorization header, if any
IdentityOf(header) ==
    IF require_auth(header, now).ok THEN Some(require_auth(header, now).val) ELSE None

\* a step in which a single delete request for an existing file is answered
DeleteAnswered == resp = NoResp /\ resp'.op = "delete_file" /\ IsSome(Find(files, Unwrap(resp'.file)))
DeletedFile == Unwrap(Find(files, Unwrap(resp'.file)))
DeletedProject == Unwrap(Find(projects, DeletedFile.project_id))

\* the request's X-API-Key header is the text of the key of the file's project
SentProjectKey == resp'.x_api_key = Some(TextKey(UuidText(DeletedProject.api_key)))

FileRemoved ==
    /\ ~IsSome(Find(files', DeletedFile.id))
    /\ DeletedFile.file_path \notin blobs'

\* C11: a single delete request with an identity is authorized exactly when
\* the identity owns the file's project, whatever key it sends; without an
\* identity it is authorized exactly when X-API-Key is the project's key; a
\* denied request is answered Unauthorized and removes neither blob nor row.
C11_DeleteAuthorization ==
    [][DeleteAnswered =>
          LET identity == IdentityOf(Unwrap(resp'.authorization))
          IN  /\ IsSome(identity) =>
                    (resp'.status = "Ok" <=> DeletedProject.user_id = Unwrap(identity).id)
              /\ ~IsSome(identity) => (resp'.status = "Ok" <=> SentProjectKey)
              /\ resp'.status = "Ok" => FileRemoved
              /\ resp'.status /= "Ok" =>
                    resp'.status = "Unauthorized" /\ UNCHANGED <<files, blobs>>]_vars

\* The handler by itself decides as C11 says, over every value of its
\* extractor (checked under SpecHandlers).
DeleteFilePolicy ==
    [][DeleteAnswered =>
          /\ IsSome(resp'.identity) =>
                (resp'.status = "Ok" <=> DeletedProject.user_id = Unwrap(resp'.identity).id)
          /\ ~IsSome(resp'.identity) => (resp'.status = "Ok" <=> SentProjectKey)
          /\ resp'.status = "Ok" => FileRemoved
          /\ resp'.status /= "Ok" =>
                resp'.status = "Unauthorized" /\ UNCHANGED <<files, blobs>>]_vars

\* C12: a DELETE request for a file that carries no bearer token and whose
\* X-API-Key is the key of the file's project deletes the file.
C12_DeleteByKeyEndToEnd ==
    [][(DeleteAnswered /\ resp'.authorization = Some(NoHeader) /\ SentProjectKey)
          => resp'.status = "Ok" /\ FileRemoved]_vars

\* a step in which a bulk delete request is answered, by the Router or by
\* the handler
BulkAnswered == resp = NoResp /\ resp'.op \in {"bulk_delete", "bulk_delete_files"}

\* the rows of the requested files
Requested == {files[i] : i \in {j \in 1..Len(files) :
                                    \E k \in 1..Len(resp'.file_ids) : resp'.file_ids[k] = files[j].id}}

\* the requested files whose project the user owns
OwnedBy(user_id) ==
    {f \in Requested : \E i \in 1..Len(projects) :
                           projects[i].id = f.project_id /\ projects[i].user_id = user_id}

\* the request's X-API-Key header is the text of the key of project
SentKeyOf(project) == resp'.x_api_key = Some(TextKey(UuidText(project.api_key)))

MixedProjects ==
    \E i \in 1..Len(projects) :
        SentKeyOf(projects[i]) /\ \E f \in Requested : f.project_id /= projects[i].id

\* C13: a bulk delete with API-key auth in which some requested file belongs
\* to a project other than the key's is answered BadRequest and removes no
\* blob and no file row.
C13_BulkMixedProjectsRefused ==
    [][(BulkAnswered /\ ~IsSome(IdentityOf(Unwrap(resp'.authorization))) /\ MixedProjects)
          => resp'.status = "BadRequest" /\ UNCHANGED <<files, blobs>>]_vars

\* The handler by itself refuses as C13 says (checked under SpecHandlers).
BulkDeleteAllOrNothing ==
    [][(BulkAnswered /\ ~IsSome(resp'.identity) /\ MixedProjects)
          => resp'.status = "BadRequest" /\ UNCHANGED <<files, blobs>>]_vars

\* exactly the rows and blobs of removed are gone
RemovedExactly(removed) ==
    /\ files' = SelectSeq(files, LAMBDA f : f \notin removed)
    /\ blobs' = blobs \ {f.file_path : f \in removed}

\* C14: a bulk delete with a user identity that owns some of the requested
\* files deletes exactly the requested files of the user's projects, leaves
\* the others, succeeds and reports their number, whatever X-API-Key it sends.
C14_BulkOwnedSubset ==
    [][BulkAnswered =>
          LET identity == IdentityOf(Unwrap(resp'.authorization))
          IN  (IsSome(identity) /\ OwnedBy(Unwrap(identity).id) /= {}) =>
                  /\ RemovedExactly(OwnedBy(Unwrap(identity).id))
                  /\ resp'.status = "Ok"
                  /\ resp'.count = Cardinality(OwnedBy(Unwrap(identity).id))]_vars

\* The handler by itself deletes as C14 says (checked under SpecHandlers).
BulkDeleteSubset ==
    [][(BulkAnswered /\ IsSome(resp'.identity) /\ OwnedBy(Unwrap(resp'.identity).id) /= {}) =>
          /\ RemovedExactly(OwnedBy(Unwrap(resp'.identity).id))
          /\ resp'.status = "Ok"
          /\ resp'.count = Cardinality(OwnedBy(Unwrap(resp'.identity).id))]_vars

(* ------------------------------ uploads -------------------------------- *)
\* a step in which an upload is answered
UploadAnswered == resp = NoResp /\ resp'.op = "upload_file"

\* C15: an upload whose X-API-Key header is absent, unreadable, no uuid or
\* the key of no project is answered Unauthorized and creates no folder row,
\* no file row and no blob, whatever Authorization header it carries; an
\* upload with a project's key is not turned away for its credentials, and a
\* successful one stores the file under the project of the key.
C15_UploadNeedsProjectKey ==
    [][UploadAnswered =>
          /\ (\A i \in 1..Len(projects) : ~SentKeyOf(projects[i])) <=> resp'.status = "Unauthorized"
          /\ resp'.status = "Unauthorized" => UNCHANGED <<folders, files, blobs>>
          /\ resp'.status = "Ok" =>
                \E i \in 1..Len(projects) :
                    /\ SentKeyOf(projects[i])
                    /\ Len(files') = Len(files) + 1
                    /\ SubSeq(files', 1, Len(files)) = files
                    /\ files'[Len(files')].id = Unwrap(resp'.file)
                    /\ files'[Len(files')].project_id = projects[i].id
                    /\ files'[Len(files')].file_path \in blobs'
                    /\ files'[Len(files')].file_path.project_id = projects[i].id]_vars

\* an upload with a valid access token and no X-API-Key has been turned away,
\* and one with a project's key has stored a file
C15_Witness ==
    /\ resp.op = "upload_file"
    /\ resp.status = "Unauthorized"
    /\ Unwrap(resp.authorization).form = "bearer"
    /\ Unwrap(resp.x_api_key) = AbsentKey
    /\ Len(projects) > 0
    /\ Len(files) > 0

(* ---------------------------- folder paths ----------------------------- *)
\* the rule for folder paths: a path is refused when it contains "..",
\* starts with '/' or '\', contains a doubled separator or a NUL byte, holds
\* a character outside [A-Za-z0-9_./-], or has a segment that begins with '.'
Refused(path) ==
    \/ contains(path, <<".", ".">>)
    \/ starts_with(path, "/") \/ starts_with(path, "\\")
    \/ contains(path, <<"/", "/">>) \/ contains(path, <<"\\", "\\">>)
    \/ contains(path, <<"NUL">>)
    \/ \E i \in 1..Len(path) : path[i] \notin AsciiAlphanumeric \cup {"_", ".", "/", "-"}
    \/ \E i \in 1..Len(split(path)) : starts_with(split(path)[i], ".")

\* a step in which an upload that carries a project's key and a folder path
\* is answered
UploadWithPath ==
    /\ UploadAnswered
    /\ \E i \in 1..Len(projects) : SentKeyOf(projects[i])
    /\ IsSome(payload) /\ Unwrap(payload) /= <<>>

\* C16: upload answers BadRequest for exactly the folder paths the rule
\* refuses, and a refused path leaves no folder row, file row or blob.
C16_UploadPathRule ==
    [][UploadWithPath =>
          /\ resp'.status = "BadRequest" <=> Refused(Unwrap(payload))
          /\ Refused(Unwrap(payload)) => UNCHANGED <<folders, files, blobs>>]_vars

\* Over paths of ASCII characters upload refuses what the rule refuses.
UploadPathRuleAscii ==
    [][(UploadWithPath /\ ~contains(Unwrap(payload), <<"U+00E9">>)) =>
          /\ resp'.status = "BadRequest" <=> Refused(Unwrap(payload))
          /\ Refused(Unwrap(payload)) => UNCHANGED <<folders, files, blobs>>]_vars

\* C17: no folder row ever holds a path the rule refuses, and no upload,
\* create_folder or delete_folder_files with a refused path changes a table
\* or the disk.
C17_PathRuleEverywhere ==
    [][/\ \A i \in 1..Len(folders') : ~Refused(folders'[i].path)
       /\ Refused(Unwrap(payload)) => UNCHANGED <<folders, files, blobs>>]_vars

(* ------------------------- the gate's two modes ------------------------ *)
\* the bearer token of the request at the gate
Presented == Unwrap(request.token)

\* the token passes neither verify_access_token nor verify_token
FailsBoth ==
    ~verify_access_token(Presented, now).ok /\ ~verify_token(Presented, now).ok

\* C18: require_auth answers Unauthorized itself when the Authorization
\* header is absent, is no bearer credential, or carries a token that fails
\* verify_access_token and verify_token (a bad signature and a token past its
\* expiry among them); it runs the handler only with the id, e-mail and role
\* of the claims of a token that one of the two accepted.
C18_RequiredGate ==
    resp.op = "require_auth" =>
        /\ request.form /= "bearer" => resp.status = "Unauthorized" /\ resp.identity = None
        /\ (request.form = "bearer"
                /\ (FailsBoth \/ Presented.sig /= "good" \/ now > Presented.exp + Leeway))
              => resp.status = "Unauthorized" /\ resp.identity = None
        /\ resp.status = "Next" =>
              /\ request.form = "bearer" /\ ~FailsBoth
              /\ resp.identity = Some(AuthUser(Unwrap(Presented.sub), Unwrap(Presented.email),
                                               Unwrap(Presented.role)))
              /\ Unwrap(Presented.sub) \in UserIds
              /\ Unwrap(Presented.role) \in {"admin", "user"}

\* the handler runs with the identity of a legacy token, resolved by the
\* fallback after verify_access_token refused the token
C18_Witness ==
    /\ resp.op = "require_auth" /\ resp.status = "Next"
    /\ Presented.token_type = Some("legacy")
    /\ ~verify_access_token(Presented, now).ok
    /\ Unwrap(resp.identity).id = Unwrap(Presented.sub)

\* the request carries a token that verifies and whose role claim is neither
\* "admin" nor "user"
UnknownRole ==
    /\ request.form = "bearer" /\ ~FailsBoth
    /\ Unwrap(Presented.role) \notin {"admin", "user"}

\* C19: a verifiable token with a role claim other than "admin" and "user"
\* gives no identity in either mode of the gate, and TokenError in required
\* mode.
C19_StrictRole ==
    (UnknownRole /\ resp.op \in {"require_auth", "optional_auth"}) =>
        /\ resp.identity = None
        /\ resp.op = "require_auth" => resp.status = "TokenError"

\* C20: optional_auth always runs the handler, and attaches the identity
\* require_auth would run it with, or none when require_auth would reject.
C20_OptionalAsRequired ==
    resp.op = "optional_auth" =>
        /\ resp.status = "Next"
        /\ resp.identity = IdentityOf(request)

(* ---------------------------------------------------------------------- *)
\* C21: the reuse branch of rotate writes before it answers: the step that
\* returns TokenReuseDetected is the step of the family-wide UPDATE, every row
\* of the family that was non-revoked when it ran carries the reason
\* security_reuse_detected and the time of the write, and in the state the
\* caller sees the answer in no row of that time's family is non-revoked.
C21_ReuseWritesBeforeError ==
    [][/\ \A p \in Procs :
            Runs(p, "revoke_family") =>
                /\ resp'.status = "TokenReuseDetected"
                /\ resp'.family = Some(loc[p].family_id)
                /\ Len(refresh_tokens') = Len(refresh_tokens)
                /\ \A i \in 1..Len(refresh_tokens) :
                      (refresh_tokens[i].family_id = loc[p].family_id
                          /\ Live(refresh_tokens[i])) =>
                         /\ refresh_tokens'[i].revoked_reason = Some("security_reuse_detected")
                         /\ refresh_tokens'[i].revoked_at = Some(now)
       /\ resp'.status = "TokenReuseDetected" =>
             /\ \E p \in Procs : Runs(p, "revoke_family")
             /\ \A i \in 1..Len(refresh_tokens') :
                   refresh_tokens'[i].family_id = Unwrap(resp'.family)
                       => ~Live(refresh_tokens'[i])
      ]_vars

\* TokenReuseDetected is answered and a row of the family, non-revoked until
\* then, carries the reason of the reuse write
C21_Witness ==
    /\ resp.op = "refresh" /\ resp.status = "TokenReuseDetected"
    /\ \E r \in Rows : /\ r.family_id = Unwrap(resp.family)
                       /\ r.id /= Unwrap(resp.row)
                       /\ r.revoked_reason = Some("security_reuse_detected")

(* ---------------------------------------------------------------------- *)
\* C22: no step deletes or reorders a row of the Session Store or changes a
\* row's id, owner, hash, family or expiry, and a row that is revoked before
\* a step is revoked after it.
C22_RevocationMonotonic ==
    [][/\ Len(refresh_tokens') >= Len(refresh_tokens)
       /\ \A i \in 1..Len(refresh_tokens) :
             /\ refresh_tokens'[i].id = refresh_tokens[i].id
             /\ refresh_tokens'[i].user_id = refresh_tokens[i].user_id
             /\ refresh_tokens'[i].token_hash = refresh_tokens[i].token_hash
             /\ refresh_tokens'[i].family_id = refresh_tokens[i].family_id
             /\ refresh_tokens'[i].expires_at = refresh_tokens[i].expires_at
             /\ ~Live(refresh_tokens[i]) => ~Live(refresh_tokens'[i])
      ]_vars

\* a logout that named a row of the caller has been answered: the row is
\* still stored, revoked, next to a row inserted before or after it
C22_Witness ==
    /\ resp.op = "logout" /\ resp.status = "Ok"
    /\ Len(refresh_tokens) = 2
    /\ \E r \in Rows : r.revoked_reason = Some("logout")

(* ---------------------------------------------------------------------- *)
\* C23: a row that is revoked keeps its revocation timestamp and reason
\* through every later step of rotate, logout, logout_all, change_password and
\* the reuse branch.
C23_RevokedRowsFrozen ==
    [][\A i \in 1..Len(refresh_tokens) :
          ~Live(refresh_tokens[i]) =>
              /\ refresh_tokens'[i].revoked_at = refresh_tokens[i].revoked_at
              /\ refresh_tokens'[i].revoked_reason = refresh_tokens[i].revoked_reason
      ]_vars

(* ---------------------------------------------------------------------- *)
\* C25: a login or register that succeeds appends exactly one row to the
\* Session Store, non-revoked, with an id and a family_id no earlier row
\* carries, and changes no other row and no other table (register having
\* inserted the row of the new user); a login with an unknown e-mail or a
\* wrong password answers InvalidCredentials, and that answer stores nothing.
C25_LoginPersistsOneRow ==
    [][/\ (resp'.op \in {"login", "register"} /\ resp'.status = "Ok") =>
             /\ Len(refresh_tokens') = Len(refresh_tokens) + 1
             /\ \A i \in 1..Len(refresh_tokens) : refresh_tokens'[i] = refresh_tokens[i]
             /\ LET new == refresh_tokens'[Len(refresh_tokens')]
                IN  /\ Live(new)
                    /\ resp'.child = Some(new.id)
                    /\ \A r \in Rows : /\ r.id /= new.id
                                       /\ r.family_id /= new.family_id
                                       /\ r.token_hash /= new.token_hash
                    /\ IsSome(users'[new.user_id])
                    /\ \A u \in UserIds :
                          users'[u] = users[u]
                              \/ (resp'.op = "register" /\ u = new.user_id /\ users[u] = None)
             /\ UNCHANGED <<config, tables>>
       /\ (resp'.op = "login" /\ resp'.status = "InvalidCredentials") =>
             UNCHANGED <<users, refresh_tokens, config, tables>>
       /\ \A p \in Procs, email \in Emails, password \in Passwords :
             (/\ login(p, email, password)
              /\ \/ ~IsSome(users[email])
                 \/ ~verify_password(password, Unwrap(users[email]).password_hash))
                => resp'.status = "InvalidCredentials"
      ]_vars

\* a second session has been opened: the new row is non-revoked and shares
\* its family with no other row
C25_Witness ==
    /\ resp.op \in {"login", "register"} /\ resp.status = "Ok"
    /\ Len(refresh_tokens) = 2
    /\ Live(refresh_tokens[2])
    /\ refresh_tokens[2].id = Unwrap(resp.child)
    /\ refresh_tokens[1].family_id /= refresh_tokens[2].family_id

(* ---------------------------------------------------------------------- *)
\* C26: a rotate with a refresh token that verifies and whose hash no row
\* carries is answered with an error of its own, TokenNotFound, not with the
\* TokenError a token with a bad signature is answered with, and leaves the
\* Session Store as it was.
C26_UnknownTokenNotFound ==
    [][\A p \in Procs :
          refresh_token(p, UnknownToken) =>
              /\ resp'.status = "TokenNotFound"
              /\ resp'.status /= "TokenError"
              /\ UNCHANGED refresh_tokens
      ]_vars

(* ---------------------------------------------------------------------- *)
\* the row presented is past its expires_at
Expired(r, t) == r.expires_at < t

\* C28: a rotate with a token that passes verification and whose row is
\* non-revoked and past its expires_at answers RefreshTokenExpired and
\* changes no row and starts no write; when the row is revoked as well the
\* handler takes the reuse branch, which revokes the family and answers
\* TokenReuseDetected.
C28_ExpiredRow ==
    [][\A p \in Procs :
        /\ \A r \in Rows :
              (/\ refresh_token(p, RefreshTokenOf(r))
               /\ verify_refresh_token(RefreshTokenOf(r), now).ok
               /\ Expired(r, now)) =>
                  IF Live(r)
                  THEN /\ resp'.status = "RefreshTokenExpired"
                       /\ resp'.row = Some(r.id)
                       /\ pc'[p] = "idle"
                       /\ UNCHANGED <<refresh_tokens, users>>
                  ELSE /\ pc'[p] = "revoke_family"
                       /\ loc'[p].family_id = r.family_id
                       /\ resp' = NoResp
        /\ resp'.status = "RefreshTokenExpired" =>
              /\ UNCHANGED <<refresh_tokens, users>>
              /\ Live(RowOf(refresh_tokens, Unwrap(resp'.row)))
              /\ Expired(RowOf(refresh_tokens, Unwrap(resp'.row)), now)
        /\ (Runs(p, "revoke_family") /\ Expired(RowOf(refresh_tokens, loc[p].id), now)) =>
              /\ resp'.status = "TokenReuseDetected"
              /\ \A i \in 1..Len(refresh_tokens') :
                    refresh_tokens'[i].family_id = loc[p].family_id
                        => ~Live(refresh_tokens'[i])
      ]_vars

\* RefreshTokenExpired has been answered for a stored row that is not revoked
C28_Witness ==
    /\ resp.op = "refresh" /\ resp.status = "RefreshTokenExpired"
    /\ Live(RowOf(refresh_tokens, Unwrap(resp.row)))
    /\ Expired(RowOf(refresh_tokens, Unwrap(resp.row)), now)

\* a row both revoked and expired has been presented and answered
RevokedAndExpiredAnswered ==
    /\ resp.op = "refresh" /\ resp.status = "TokenReuseDetected"
    /\ Expired(RowOf(refresh_tokens, Unwrap(resp.row)), now)

(* ---------------------------------------------------------------------- *)
\* the reads of refresh_token let the token of row r through to the rotation
Rotatable(rows, r, t) ==
    /\ verify_refresh_token(RefreshTokenOf(r), t).ok
    /\ FindByHash(rows, hash_token(RefreshTokenOf(r))) = Some(r)
    /\ Live(r)
    /\ ~Expired(r, t)

\* C29: the write of the reuse branch leaves every row of another family as
\* it was, whoever owns it, and a row of another family that could be rotated
\* before the write can be rotated after it: a rotate presenting its token
\* passes the handler's reads.
C29_ReuseContained ==
    [][\A p \in Procs :
        /\ Runs(p, "revoke_family") =>
              \A i \in 1..Len(refresh_tokens) :
                  refresh_tokens[i].family_id /= loc[p].family_id =>
                      /\ refresh_tokens'[i] = refresh_tokens[i]
                      /\ Rotatable(refresh_tokens, refresh_tokens[i], now)
                            => Rotatable(refresh_tokens', refresh_tokens'[i], now')
        /\ \A r \in Rows :
              (refresh_token(p, RefreshTokenOf(r)) /\ Rotatable(refresh_tokens, r, now))
                  => pc'[p] = "revoke_current" /\ loc'[p].id = r.id
      ]_vars

\* reuse has been detected in one family while another user's row, of another
\* family, is non-revoked and can be rotated
C29_Witness ==
    /\ resp.op = "refresh" /\ resp.status = "TokenReuseDetected"
    /\ \E r \in Rows :
          /\ r.family_id /= Unwrap(resp.family)
          /\ r.user_id /= RowOf(refresh_tokens, Unwrap(resp.row)).user_id
          /\ Rotatable(refresh_tokens, r, now)

\* the same with another family of the same user
OtherFamilyOfUserSurvives ==
    /\ resp.op = "refresh" /\ resp.status = "TokenReuseDetected"
    /\ \E r \in Rows :
          /\ r.family_id /= Unwrap(resp.family)
          /\ r.user_id = RowOf(refresh_tokens, Unwrap(resp.row)).user_id
          /\ Rotatable(refresh_tokens, r, now)

(* ---------------------------------------------------------------------- *)
\* C30: once a password change of a user has returned success, no row of a
\* family that had a row when the change revoked the user's sessions is
\* non-revoked.
C30_NoSessionSurvivesChange ==
    \A r \in Rows :
        (\E x \in Rows : x.id \in pre_change /\ x.family_id = r.family_id) => ~Live(r)

(* ---------------------------------------------------------------------- *)
\* the gate let the request through on the word of verify_token, after
\* verify_access_token had refused the token
ThroughFallback ==
    /\ resp.op = "require_auth" /\ resp.status = "Next"
    /\ ~verify_access_token(Presented, now).ok

\* C27: a token out of a response of register, login, refresh, register-legacy
\* or login-legacy is never let through the gate by the legacy fallback, and
\* verify_token accepts a token only when it carries no token_type.
C27_LegacyUnreachable ==
    request.form = "bearer" =>
        /\ ~ThroughFallback
        /\ verify_token(Presented, now).ok => Presented.token_type = None

\* the token of a login-legacy or register-legacy response carried a request
\* through the gate
LegacyTokenAuthenticated ==
    /\ ThroughFallback
    /\ Presented.token_type = Some("legacy")
    /\ resp.identity = Some(AuthUser(Unwrap(Presented.sub), Unwrap(Presented.email),
                                     Unwrap(Presented.role)))

(* ---------------------------------------------------------------------- *)
\* C24: every file row an upload has inserted points at a file that is on the
\* disk, in every state the uploads and a crash at any point of an upload
\* lead to.
C24_RowsPointAtBlobs ==
    \A i \in 1..Len(files) : files[i].file_path \in blobs

\* The order of the handler's statements: when the row is inserted the file
\* has been created and its bytes handed to write_all.
UploadWritesBeforeInsert ==
    [][\A p \in Procs : (Runs(p, "insert_file") /\ resp'.op = "upload_file") =>
          /\ loc[p].storage_path \in blobs
          /\ files'[Len(files')].file_path = loc[p].storage_path]_vars

\* The server has stopped between the write and the INSERT: the file is on
\* the disk and no row points at it.
CrashBeforeInsert ==
    /\ \A p \in Procs : pc[p] = "idle"
    /\ \E blob \in blobs : \A i \in 1..Len(files) : files[i].file_path /= blob

(* ---------------------------------------------------------------------- *)
\* C31: logout always reports success and changes at most the row that
\* carries the hash of the token in its body, and that only when the row is
\* the caller's and non-revoked; with a token of another user, an unknown
\* token or a revoked one it changes nothing.  logout_all revokes the
\* caller's non-revoked rows with reason logout_all, reports their number and
\* changes no other row, so that none is left for a second call to count.
C31_LogoutOwnRowsOnly ==
    [][resp'.op \in {"logout", "logout_all"} =>
       \A p \in Procs, gate \in GateResults :
        /\ \A refresh \in LogoutBodies :
              logout(p, gate, refresh) =>
                  /\ resp'.status = "Ok"
                  /\ Len(refresh_tokens') = Len(refresh_tokens)
                  /\ \A i \in 1..Len(refresh_tokens) :
                        IF /\ IsSome(refresh)
                           /\ refresh_tokens[i].token_hash = hash_token(Unwrap(refresh))
                           /\ refresh_tokens[i].user_id = gate.val.id
                           /\ Live(refresh_tokens[i])
                        THEN refresh_tokens'[i] = Revoked(refresh_tokens[i], "logout", now)
                        ELSE refresh_tokens'[i] = refresh_tokens[i]
        /\ logout_all(p, gate) =>
              /\ resp'.status = "Ok"
              /\ Len(refresh_tokens') = Len(refresh_tokens)
              /\ resp'.count = Cardinality({i \in 1..Len(refresh_tokens) :
                                   /\ refresh_tokens[i].user_id = gate.val.id
                                   /\ Live(refresh_tokens[i])})
              /\ \A i \in 1..Len(refresh_tokens) :
                    /\ refresh_tokens'[i] =
                          IF refresh_tokens[i].user_id = gate.val.id /\ Live(refresh_tokens[i])
                          THEN Revoked(refresh_tokens[i], "logout_all", now)
                          ELSE refresh_tokens[i]
                    /\ refresh_tokens'[i].user_id = gate.val.id => ~Live(refresh_tokens'[i])
      ]_vars

\* logout_all has revoked the caller's one session while the session of
\* another user stays non-revoked
C31_Witness ==
    /\ resp.op = "logout_all" /\ resp.status = "Ok" /\ resp.count = 1
    /\ \E r \in Rows : r.revoked_reason = Some("logout_all")
    /\ \E r \in Rows : Live(r)

\* logout_all has been called again and has counted no row
LogoutAllAgain ==
    /\ resp.op = "logout_all" /\ resp.count = 0
    /\ \E r \in Rows : r.revoked_reason = Some("logout_all")

(* ---------------------------------------------------------------------- *)
\* C32: when rotate answers an error other than TokenReuseDetected about a
\* row of the store, that row is not left revoked by rotation without a
\* successor: either it is non-revoked as the call found it, or a later row
\* of its family exists.
C32_FailedRotateKeepsRow ==
    [][(/\ resp = NoResp
        /\ resp'.op = "refresh"
        /\ resp'.status \notin {"Ok", "TokenReuseDetected"}
        /\ IsSome(resp'.row)) =>
          LET i == CHOOSE k \in 1..Len(refresh_tokens') :
                       refresh_tokens'[k].id = Unwrap(resp'.row)
          IN  \/ Live(refresh_tokens'[i])
              \/ \E k \in (i + 1)..Len(refresh_tokens') :
                    refresh_tokens'[k].family_id = refresh_tokens'[i].family_id
      ]_vars

\* a rotate that failed at its INSERT has returned: the presented row is
\* revoked by rotation and is the last row of the store
RotationLostSession ==
    /\ resp.op = "refresh" /\ resp.status = "Database"
    /\ Len(refresh_tokens) > 0
    /\ refresh_tokens[Len(refresh_tokens)].id = Unwrap(resp.row)
    /\ refresh_tokens[Len(refresh_tokens)].revoked_reason = Some("rotation")
    /\ \A r \in Rows : ~Live(r)

(* ---------------------------------------------------------------------- *)
\* C33: change_password with a new password that fails validation or with a
\* current password that is not the stored one answers an error and leaves
\* the users and the refresh-token rows as they were; otherwise it replaces
\* the hash and clears must_change_password, and when success is returned
\* the user row carries the flag cleared and a hash of a valid password and
\* none of the user's rows is non-revoked.
C33_ChangePasswordAllOrNothing ==
    [][/\ (\E q \in Procs : pc[q] = "idle" /\ pc'[q] = "revoke_sessions")
              \/ (resp = NoResp /\ resp'.op = "change_password" /\ resp'.status /= "Ok") =>
          \A p \in Procs, gate \in GateResults, current_password \in Passwords,
             new_password \in Passwords :
             change_password(p, gate, current_password, new_password) =>
                IF /\ PasswordLen(new_password) >= MinPasswordLen
                   /\ Unwrap(users[gate.val.id]).password_hash = hash_password(current_password)
                THEN /\ users' = [users EXCEPT ![gate.val.id] =
                                     Some(UserRow(hash_password(new_password), FALSE))]
                     /\ pc'[p] = "revoke_sessions"
                ELSE /\ resp'.status \in {"ValidationError", "BadRequest"}
                     /\ UNCHANGED <<users, refresh_tokens>>
       /\ (resp = NoResp /\ resp'.op = "change_password" /\ resp'.status = "Ok") =>
             \A p \in Procs : pc[p] = "revoke_sessions" /\ pc'[p] = "idle" =>
                /\ ~Unwrap(users'[loc[p].user]).must_change_password
                /\ \E pw \in Passwords :
                      /\ PasswordLen(pw) >= MinPasswordLen
                      /\ Unwrap(users'[loc[p].user]).password_hash = hash_password(pw)
                /\ \A r \in Rows : r.user_id = loc[p].user =>
                      RowOf(refresh_tokens', r.id) =
                          IF Live(r) THEN Revoked(r, "password_change", now) ELSE r
      ]_vars

\* success has been returned to the administrator: the bootstrap hash is
\* gone, the flag is cleared and a session is revoked by password_change
C33_Witness ==
    /\ resp.op = "change_password" /\ resp.status = "Ok"
    /\ Unwrap(users["u1"]).password_hash = hash_password("hunter22")
    /\ ~Unwrap(users["u1"]).must_change_password
    /\ \E r \in Rows : r.user_id = "u1" /\ r.revoked_reason = Some("password_change")

\* a wrong current password has been refused while the user has a session
WrongCurrentPasswordRefused ==
    /\ resp.op = "change_password" /\ resp.status = "BadRequest"
    /\ Unwrap(users["u1"]).must_change_password
    /\ \E r \in Rows : r.user_id = "u1" /\ Live(r)

(* ---------------------------------------------------------------------- *)
\* the project exists and belongs to the user
Owns(user_id, project_id) ==
    \E i \in 1..Len(projects) :
        projects[i].id = project_id /\ projects[i].user_id = user_id

\* the folder exists and its project belongs to the user
OwnsFolder(user_id, folder_id) ==
    \E i \in 1..Len(folders) :
        folders[i].id = folder_id /\ Owns(user_id, folders[i].project_id)

OwnerOnlyOps ==
    {"update_project", "delete_project", "regenerate_api_key", "create_folder",
     "list_folders", "list_project_files", "update_folder_visibility"}

\* what the step of an owner-only operation answers: to an identity that
\* does not own the target NotFound, and the tables as they were; Ok to the
\* owner only
Outcome(owner) ==
    /\ ~owner => resp'.status = "NotFound" /\ UNCHANGED <<projects, folders, files, blobs>>
    /\ resp'.status = "Ok" => owner

C35_FolderFlagFrame ==
    [][/\ \A i \in 1..Len(folders') :
            LET folder == folders'[i]
                before == Find(folders, folder.id)
            IN  IF IsSome(before)
                THEN folder.is_public /= Unwrap(before).is_public =>
                        /\ resp'.op \in {"update_folder_visibility", "create_folder"}
                        /\ resp'.status = "Ok"
                ELSE \/ folder.is_public = Unwrap(Find(projects, folder.project_id)).is_public
                     \/ \E p \in Procs, gate \in GateResults, is_public \in BOOLEAN :
                           create_folder(p, gate, folder.project_id, folder.path,
                                         Some(is_public))
                           /\ folder.is_public = is_public
       /\ (\E p \in Procs : pc'[p] = "insert_file") \/ resp'.op = "upload_file" =>
             \A i \in 1..Len(folders) : folders'[i] = folders[i]
       /\ resp'.op = "update_project" => folders' = folders
      ]_vars

\* a file has been uploaded into a folder that existed, in a project whose
\* visibility was changed after the folder was created: the folder still
\* carries the flag it was created with
C35_Witness ==
    /\ resp.op = "upload_file" /\ resp.status = "Ok"
    /\ \E i \in 1..Len(files), j \in 1..Len(folders), k \in 1..Len(projects) :
          /\ files[i].folder_id = Some(folders[j].id)
          /\ folders[j].project_id = projects[k].id
          /\ projects[k].is_public /\ ~folders[j].is_public

(* ---------------------------------------------------------------------- *)
\* C37: when delete_folder_files returns, every file row that remains in the
\* key's project points at a blob that exists.
C37_RemainingRowsKeepBlobs ==
    [][\A p \in Procs :
          pc[p] = "remove_dir" /\ pc'[p] = "idle" =>
             \A i \in 1..Len(files') :
                files'[i].project_id = loc[p].project_id => files'[i].file_path \in blobs'
      ]_vars

\* delete_folder_files of "d" has returned with no other request in flight:
\* the folder "d/i" and the row of its file remain, the file's blob is gone
NestedBlobLost ==
    /\ resp.op = "delete_folder_files" /\ resp.status = "Ok"
    /\ \A p \in Procs : pc[p] = "idle"
    /\ ~IsSome(FindFolderAt(1, <<"d">>))
    /\ \E i \in 1..Len(files) :
          /\ files[i].folder_id = Some(Unwrap(FindFolderAt(1, <<"d", "/", "i">>)).id)
          /\ files[i].file_path \notin blobs

(* ---------------------------------------------------------------------- *)
\* C38: download_file serves a file that has a folder_id and belongs to a
\* project it read as private, to a request without the project's key, only
\* when the folder row of the file exists and is public.
C38_MissingFolderNeedsKey ==
    [][\A p \in Procs :
          (/\ pc[p] = "select_folder" /\ pc'[p] = "idle"
           /\ resp'.status = "Ok"
           /\ ~loc[p].project.is_public
           /\ IsSome(loc[p].file.folder_id)
           /\ ~KeyAccepted(loc[p].project, loc[p].x_api_key, loc[p].api_key)) =>
             \E i \in 1..Len(folders) :
                /\ folders[i].id = Unwrap(loc[p].file.folder_id)
                /\ folders[i].is_public
      ]_vars

\* a download without a key has been served the file of a private folder of
\* a private project while the delete_folder_files that removed the folder
\* row has not yet removed the directory
ServedDuringDelete ==
    /\ resp.op = "download_file" /\ resp.status = "Ok"
    /\ resp.x_api_key = Some(AbsentKey) /\ resp.api_key = None
    /\ \E p \in Procs : pc[p] = "remove_dir"
    /\ \A i \in 1..Len(projects) : ~projects[i].is_public
    /\ folders = <<>>

(* ---------------------------------------------------------------------- *)
\* a project holds the key that the request sends in X-API-Key
Held(x_api_key) ==
    \E i \in 1..Len(projects) : KeyAccepted(projects[i], x_api_key, None)

OldKeyDownloadRefused ==
    /\ resp.op = "download_file" /\ resp.status = "Unauthorized"
    /\ resp.x_api_key = Some(TextKey(UuidText(1)))
    /\ Len(projects) = 1 /\ projects[1].api_key = 2

====
